---- MODULE Spec2Model ----
(***************************************************************************)
(* A model of the Aurora compiler: the statement code generator and its    *)
(* CodeGenContext (loop stack, scope stack, symbol table, builder), the    *)
(* reference-counting runtime, the module loader and the compileAndRun     *)
(* pipeline of the command-line driver, variables of optional type, the    *)
(* parsing and code generation of a class declaration with its             *)
(* constructors, the coercion of returned values, the binding of runtime   *)
(* symbols into the JIT, the parsing of calls against the class registry,  *)
(* assignments as the generated code executes them, the lexer, and the     *)
(* resolution of fields of `this` inside a method.                         *)
(*                                                                         *)
(* Code generation walks an AST recursively.  The walk is modelled as the  *)
(* stream of steps it performs: one action per statement handler, and for  *)
(* a statement with nested bodies one action for the part before the body  *)
(* and one for the part after it.  The lexical nesting of the statements   *)
(* being generated is the history variable nest.                           *)
(***************************************************************************)
EXTENDS Integers, Sequences, FiniteSets, TLC

\* ---------------------------------------------------------------- bounds
MaxStmts == 2      \* statements generated per function or method body
MaxLoopStmts == 3  \* the same, for bodies of loops and jumps only
MaxDepth == 2      \* lexical nesting of loop / if statements
MaxFuncs == 1      \* functions and methods generated per compilation
MaxErrors == 2     \* error diagnostics counted by the DiagnosticEngine
MaxObjects == 2    \* heap objects the runtime allocates
MaxRefs == 3       \* largest reference count an object reaches
MaxLoadDepth == 4  \* nested ImportDecl::load calls the process has resources for
MaxRequests == 3   \* top-level load requests: the prelude and the main file's imports
MaxImports == 3    \* import declarations in all module files together
MaxOptInt == 2     \* largest small integer stored into an optional variable
MaxFields == 1     \* fields declared in a class body
MaxCtors == 2      \* explicit constructors declared in a class body
MaxRetInt == 2     \* largest magnitude of a returned number
MaxDecls == 2      \* methods, and functions, of the compiled file
MaxItems == 3      \* top-level items of the parsed file
MaxSource == 3     \* characters of the lexer's input
MaxNameLen == 3    \* characters of a class name

\* ------------------------------------------------------------- variables
VARIABLES
    pc,             \* "top": between definitions; "body": inside Function/MethodDecl::codegen
    fn,             \* the function being generated: [serial, kind, retTy]
    stmtCount,      \* statements generated so far in this body
    ctlSerial,     \* loop / if statements generated so far in this body (names their blocks)
    nest,           \* history: the statements whose bodies are being generated
    loop_stack_,    \* CodeGenContext::loop_stack_
    scope_stack_,   \* CodeGenContext::scope_stack_
    named_values_,  \* CodeGenContext::named_values_
    error_count_,   \* DiagnosticEngine::error_count_
    builder,        \* IRBuilder insert point: [block, hasTerm, lastIsTerm]
    broken,         \* the function's IR no longer passes llvm::verifyFunction
    emitted,        \* instructions emitted into the insert block by the last step
    last            \* history: what the last step was and how it returned

cgVars == <<pc, fn, stmtCount, ctlSerial, nest, loop_stack_, scope_stack_,
            named_values_, error_count_, builder, broken, emitted, last>>

\* the runtime heap
VARIABLES
    heap,           \* object id -> [state, ref_count, type, frees, freedBy]
    rtLast          \* history: the last runtime call, its result, the heap before it

rtVars == <<heap, rtLast>>

\* the module loader
VARIABLES
    files,          \* module file -> the import declarations of that file
    loadedModules,  \* ModuleLoader.cpp's static set loadedModules
    loadStack,      \* the active ImportDecl::load calls: [module, next]
    ret,            \* value returned by the call that just ended ("none" while running)
    loadCalls,      \* calls of ImportDecl::load since the top-level request
    requests,       \* top-level requests made so far
    ldResult,       \* outcome of the last top-level request
    mainPhase,      \* compileAndRun: "imports", "generated" or "aborted"
    mainImports,    \* history: the import declarations of the main file asked for so far
    structTypes,    \* the named struct types of the LLVM context: [name, fields]
    codegenLog,     \* history: what each code generation of a file found
    loadedFiles,    \* history: the files whose load has returned true
    lastSkip        \* history: the last request answered by the loadedModules check

ldVars == <<files, loadedModules, loadStack, ret, loadCalls, requests, ldResult,
            mainPhase, mainImports, structTypes, codegenLog, loadedFiles, lastSkip>>

\* the driver: main and compileAndRun
VARIABLES
    plPc,           \* position in main / compileAndRun
    emit_llvm,      \* the --emit-llvm flag
    hasErrors,      \* DiagnosticEngine::hasErrors()
    codegen_success,\* compileAndRun's local flag
    declsDone,      \* methods or functions generated so far in the current loop
    failures,       \* history: the kinds of failure that have happened
    irFile,         \* "none" or "written"
    jit,            \* "none", "initialized" or "ran"
    exitCode        \* the process exit code, "running" before exit

plVars == <<plPc, emit_llvm, hasErrors, codegen_success, declsDone, failures,
            irFile, jit, exitCode>>

\* variables of optional type
VARIABLES
    optionals,      \* variable name -> its alloca: [inner, byte0, payload]
    optStored,      \* history: variable name -> the value last stored
    optLast         \* history: the last null comparison and its result

optVars == <<optionals, optStored, optLast>>

\* a class declaration
VARIABLES
    clPc,           \* "header", "body": being parsed; "methods": being code-generated
    classDecl,      \* the ClassDecl: [name, fields, methods]
    llvmFunctions,  \* the constructor functions of the LLVM module: [name, method]
    methodIx,       \* codegenMethods: the next method of classDecl.methods
    newLast         \* history: the last NewExpr::codegen

clVars == <<clPc, classDecl, llvmFunctions, methodIx, newLast>>

\* the value a Return statement returns
VARIABLES
    retFn,          \* currentFunc->getReturnType()
    retLast         \* history: the last ReturnStmt::codegen with a value

retVars == <<retFn, retLast>>

\* the JIT and the runtime symbols of the generated module
VARIABLES
    jitPc,          \* "codegen", "initializeJIT", "runMain" or "exit"
    moduleDecls,    \* the runtime functions the LLVM module declares and calls
    mainFunction,   \* the return type of the module's main, "none" without a main
    main_return_type_, \* CodeGenContext::main_return_type_
    jit_,           \* CodeGenContext::jit_: FALSE while it is null
    runtime_symbols,\* the absolute symbols defined in the JIT's main JITDylib
    mainLookup      \* history: "none", "found" or "failed", the result of jit_->lookup("main")

jitVars == <<jitPc, moduleDecls, mainFunction, main_return_type_, jit_, runtime_symbols,
             mainLookup>>

\* the parser and the class types of the TypeRegistry
VARIABLES
    program,        \* the top-level source items of the file, in source order
    parsePos,       \* the item parseProgram parses next
    classTypes,     \* the keys of TypeRegistry::classTypes
    parsedCalls     \* history: the call expressions parsed: [at, callee, node]

psVars == <<program, parsePos, classTypes, parsedCalls>>

\* the generated code of variable declarations and assignments, running
VARIABLES
    slots,          \* variable name -> the pointer its alloca holds (NULL before a store)
    asgLast         \* history: the last statement run, the variable, use of a freed object

asgVars == <<slots, asgLast>>

\* the lexer
VARIABLES
    source,         \* Lexer::source, a sequence of characters
    pos,            \* Lexer::pos, counted from 1
    lastToken       \* history: the token the last nextToken returned: [type, value, at, reported]

lxVars == <<source, pos, lastToken>>

\* the size of the generated bodies
VARIABLES
    stmtBudget      \* statements a body may hold in this specification (never changes)

bdVars == <<stmtBudget>>

\* access to a field of `this`
VARIABLES
    thisClass,      \* the name of the class whose method is being generated
    thisMethod,     \* the MethodDecl being generated: [name, params, isConstructor]
    declared,       \* the class names whose ClassType has a declaration
    memberLast      \* history: the last access through `this`: [op, className, ok]

mbVars == <<thisClass, thisMethod, declared, memberLast>>

vars == <<cgVars, rtVars, ldVars, plVars, optVars, clVars, retVars, jitVars, psVars, asgVars, lxVars, bdVars, mbVars>>

otherThanCodegen == <<rtVars, ldVars, plVars, optVars, clVars, retVars, jitVars, psVars, asgVars, lxVars, bdVars, mbVars>>
otherThanRuntime == <<cgVars, ldVars, plVars, optVars, clVars, retVars, jitVars, psVars, asgVars, lxVars, bdVars, mbVars>>
otherThanLoader == <<cgVars, rtVars, plVars, optVars, clVars, retVars, jitVars, psVars, asgVars, lxVars, bdVars, mbVars>>
otherThanDriver == <<cgVars, rtVars, ldVars, optVars, clVars, retVars, jitVars, psVars, asgVars, lxVars, bdVars, mbVars>>
otherThanOptional == <<cgVars, rtVars, ldVars, plVars, clVars, retVars, jitVars, psVars, asgVars, lxVars, bdVars, mbVars>>
otherThanClasses == <<cgVars, rtVars, ldVars, plVars, optVars, retVars, jitVars, psVars, asgVars, lxVars, bdVars, mbVars>>
otherThanReturn == <<cgVars, rtVars, ldVars, plVars, optVars, clVars, jitVars, psVars, asgVars, lxVars, bdVars, mbVars>>
otherThanJIT == <<cgVars, rtVars, ldVars, plVars, optVars, clVars, retVars, psVars, asgVars, lxVars, bdVars, mbVars>>
otherThanParser == <<cgVars, rtVars, ldVars, plVars, optVars, clVars, retVars, jitVars, asgVars, lxVars, bdVars, mbVars>>
\* the assignments at run time change the runtime heap as well
otherThanAssign == <<cgVars, ldVars, plVars, optVars, clVars, retVars, jitVars, psVars, lxVars, bdVars, mbVars>>
otherThanLexer == <<cgVars, rtVars, ldVars, plVars, optVars, clVars, retVars, jitVars, psVars, asgVars, bdVars, mbVars>>
otherThanMember == <<cgVars, rtVars, ldVars, plVars, optVars, clVars, retVars, jitVars, psVars, asgVars, lxVars, bdVars>>

\* ------------------------------------------------------------ type system
\* Type::toLLVMType of each language type
toLLVMType(t) ==
    CASE t = "Void"     -> "void"
      [] t = "Int"      -> "i64"
      [] t = "Double"   -> "double"
      [] t = "Bool"     -> "i1"
      [] t = "String"   -> "ptr"
      [] t = "Optional" -> "struct"
      [] t = "Array"    -> "struct"
      [] t = "Class"    -> "ptr"

\* CodeGenContext::needsMemoryManagement
needsMemoryManagement(ty) == ty = "ptr"

\* ------------------------------------------------- values and instructions
\* An LLVM value: its type and, for a pointer, the object it points to.
NoVal == [ty |-> "void", obj |-> "none"]
Val(ty, obj) == [ty |-> ty, obj |-> obj]

NoBlock == [fn |-> 0, id |-> 0, role |-> "none"]
Blk(role, id) == [fn |-> fn.serial, id |-> id, role |-> role]

Instr(op, a, v, b) == [op |-> op, a |-> a, v |-> v, blk |-> b]
Load(v) == Instr("load", "-", v, NoBlock)
Store(v) == Instr("store", "-", v, NoBlock)
Call(f, v) == Instr("call", f, v, NoBlock)
Br(b) == Instr("br", "-", NoVal, b)
CondBr == Instr("condbr", "-", NoVal, NoBlock)
Ret(v) == Instr("ret", "-", v, NoBlock)
Cmp(kind) == Instr(kind, "-", NoVal, NoBlock)
Unreachable == Instr("unreachable", "-", NoVal, NoBlock)

IsTerminator(i) == i.op \in {"br", "condbr", "ret", "unreachable"}

\* The memory layout at the address of a pointer value: its leading fields.
RefCountHeader == <<"i64 ref_count", "i32 type_tag">>

\* AuroraArray / AuroraString / AuroraObject all start with AuroraRefCountHeader
RuntimeObjectLayout(rest) == RefCountHeader \o rest

\* ClassDecl::codegen: the struct of a class holds its declared fields only
ClassStructFields(fields) == [i \in 1..Len(fields) |-> toLLVMType(fields[i])]

\* The class the modelled program declares: class P { var n: int; var s: string }
SampleClassFields == <<"Int", "String">>

ObjectLayout(obj) ==
    CASE obj = "AuroraArray" -> RuntimeObjectLayout(<<"i64", "ptr">>)
      [] obj = "instance"    -> ClassStructFields(SampleClassFields)
      [] obj = "cstring"     -> <<"i8">>
      [] OTHER               -> <<>>

HasRefCountHeader(obj) ==
    LET lay == ObjectLayout(obj)
    IN  Len(lay) >= Len(RefCountHeader) /\ SubSeq(lay, 1, Len(RefCountHeader)) = RefCountHeader

\* ------------------------------------------------------- CodeGenContext
Null == [allocatedType |-> "none", holds |-> "none"]
Alloca(ty, obj) == [allocatedType |-> ty, holds |-> obj]

VarNames == {"x", "y"}

pushLoopContext(s, brk, cont) == Append(s, [breakTarget |-> brk, continueTarget |-> cont])

popLoopContext(s) == IF s # <<>> THEN SubSeq(s, 1, Len(s) - 1) ELSE s

NoLoop == [breakTarget |-> NoBlock, continueTarget |-> NoBlock]
getCurrentLoop(s) == IF s = <<>> THEN NoLoop ELSE s[Len(s)]

pushScope(ss) == Append(ss, <<>>)

popScope(ss) == IF ss # <<>> THEN SubSeq(ss, 1, Len(ss) - 1) ELSE ss

\* trackVariable(name, ptr): ptr is the alloca, whose own type is always a pointer
trackVariable(ss, name, alloca) ==
    IF ss # <<>> /\ needsMemoryManagement("ptr")
    THEN [ss EXCEPT ![Len(ss)] = Append(@, [name |-> name, alloca |-> alloca])]
    ELSE ss

\* insertRetain(ptr): the instructions it emits
insertRetain(v) ==
    IF ~needsMemoryManagement(v.ty) THEN <<>> ELSE <<Call("aurora_retain", v)>>

\* insertRelease(ptr) for an alloca: load and release, only when the alloca holds a pointer
insertRelease(alloca) ==
    IF alloca = Null THEN <<>>
    ELSE IF alloca.allocatedType # "ptr" THEN <<>>
    ELSE <<Load(Val("ptr", alloca.holds)), Call("aurora_release", Val("ptr", alloca.holds))>>

RECURSIVE ReleaseEach(_, _)
ReleaseEach(variables, i) ==
    IF i = 0 THEN <<>>
    ELSE insertRelease(variables[i].alloca) \o ReleaseEach(variables, i - 1)

\* releaseAllInScope(): releases in reverse declaration order; nothing when there is no
\* scope or the insert block already ends in a terminator
releaseAllInScope(ss, lastIsTerm) ==
    IF ss = <<>> THEN <<>>
    ELSE IF lastIsTerm THEN <<>>
    ELSE ReleaseEach(ss[Len(ss)], Len(ss[Len(ss)]))

\* ------------------------------------------------------------ expressions
\* The expressions a statement may hold.  "undeclared" names no variable.
Exprs ==
    [kind : {"IntLiteralExpr", "StringExpr", "NewExpr", "ArrayLiteralExpr"}, name : {"-"}]
    \cup [kind : {"VariableExpr"}, name : VarNames \cup {"undeclared"}]

Failed == [ok |-> FALSE, val |-> NoVal, code |-> <<>>]
Produced(v, code) == [ok |-> TRUE, val |-> v, code |-> code]

\* Expr::codegen of each expression kind: the value and the instructions emitted,
\* or failure (nullptr after a diagnostic)
ExprCodegen(e) ==
    CASE e.kind = "IntLiteralExpr" -> Produced(Val("i64", "none"), <<>>)
      [] e.kind = "StringExpr" -> Produced(Val("ptr", "cstring"), <<>>)
      [] e.kind = "NewExpr" ->
            Produced(Val("ptr", "instance"),
                     <<Call("malloc", NoVal), Store(NoVal), Store(NoVal)>>)
      [] e.kind = "ArrayLiteralExpr" ->
            Produced(Val("struct", "none"),
                     <<Call("aurora_array_create", NoVal),
                       Call("aurora_array_length", Val("ptr", "AuroraArray")),
                       Load(NoVal)>>)
      [] e.kind = "VariableExpr" ->
            IF e.name \notin VarNames \/ named_values_[e.name] = Null
            THEN Failed
            ELSE LET a == named_values_[e.name]
                 IN  Produced(Val(a.allocatedType, a.holds), <<Load(Val(a.allocatedType, a.holds))>>)

\* ---------------------------------------------------------------- builder
SetInsertPoint(blk) == [block |-> blk, hasTerm |-> FALSE, lastIsTerm |-> FALSE]

\* BasicBlock::getTerminator() is non-null exactly when the block's last instruction
\* is a terminator
AfterEmit(b, is) ==
    [block      |-> b.block,
     hasTerm    |-> b.hasTerm \/ \E j \in 1..Len(is) : IsTerminator(is[j]),
     lastIsTerm |-> IF is = <<>> THEN b.lastIsTerm ELSE IsTerminator(is[Len(is)])]

\* an instruction placed after a terminator of its block: the verifier rejects the function
Misplaced(b, is) ==
    \/ is # <<>> /\ b.hasTerm
    \/ \E j \in 1..(Len(is) - 1) : IsTerminator(is[j])

\* a branch whose target block belongs to another function or to no function
BadTarget(is) == \E j \in 1..Len(is) : is[j].op = "br" /\ is[j].blk.fn # fn.serial

\* --------------------------------------------------------------- history
LoopKinds == {"WhileStmt", "ForStmt", "LoopStmt"}
InLoopLex == \E i \in 1..Len(nest) : nest[i].kind \in LoopKinds
TrackedCount == IF scope_stack_ = <<>> THEN 0 ELSE Len(scope_stack_[Len(scope_stack_)])

Step(op, ok, before, valPtr, slotPtr) ==
    [op |-> op, ok |-> ok, before |-> before, inLoop |-> InLoopLex,
     tracked |-> TrackedCount, errBefore |-> error_count_,
     valPtr |-> valPtr, slotPtr |-> slotPtr]

Frame(kind, id, thenTerm) ==
    [kind |-> kind, before |-> loop_stack_, id |-> id, thenTerm |-> thenTerm]

\* ------------------------------------------------------------------ Init
InitCodegen ==
    /\ pc = "top"
    /\ fn = [serial |-> 0, kind |-> "none", retTy |-> "void"]
    /\ stmtCount = 0
    /\ ctlSerial = 0
    /\ nest = <<>>
    /\ loop_stack_ = <<>>
    /\ scope_stack_ = <<>>
    /\ named_values_ = [n \in VarNames |-> Null]
    /\ error_count_ = 0
    /\ builder = SetInsertPoint(NoBlock)
    /\ broken = FALSE
    /\ emitted = <<>>
    /\ last = [op |-> "none", ok |-> TRUE, before |-> <<>>, inLoop |-> FALSE,
               tracked |-> 0, errBefore |-> 0, valPtr |-> FALSE, slotPtr |-> FALSE]

\* a statement handler emitted `is` into the insert block and returned
Emit(is) ==
    /\ emitted' = is
    /\ builder' = AfterEmit(builder, is)
    /\ broken' = (broken \/ Misplaced(builder, is) \/ BadTarget(is))

\* logError: one error diagnostic, nullptr returned
logError == error_count_ < MaxErrors /\ error_count_' = error_count_ + 1

InBody == pc = "body" /\ stmtCount < stmtBudget

\* ----------------------------------------- Function / MethodDecl::codegen
\* The part of Function::codegen (kind "function") or MethodDecl::codegen (kind
\* "method") before the body loop.  Functions without parameters are modelled.
FunctionBegin(kind, retTy) ==
    /\ pc = "top"
    /\ fn.serial < MaxFuncs
    /\ pc' = "body"
    /\ fn' = [serial |-> fn.serial + 1, kind |-> kind, retTy |-> retTy]
    /\ stmtCount' = 0
    /\ ctlSerial' = 0
    /\ nest' = <<>>
    /\ scope_stack_' = IF kind = "function" THEN pushScope(scope_stack_) ELSE scope_stack_
    /\ named_values_' = [n \in VarNames |-> Null]
    /\ builder' = SetInsertPoint([fn |-> fn.serial + 1, id |-> 0, role |-> "entry"])
    /\ broken' = FALSE
    /\ emitted' = <<>>
    /\ last' = Step("FunctionBegin", TRUE, loop_stack_, FALSE, FALSE)
    /\ UNCHANGED <<loop_stack_, error_count_>>
    /\ UNCHANGED otherThanCodegen

\* the terminator added when the body falls off its end: a function releases its
\* scope and returns void or ends in unreachable; a method returns void or the
\* null value of its return type
FallThrough ==
    IF builder.lastIsTerm THEN <<>>
    ELSE IF fn.kind = "function"
         THEN releaseAllInScope(scope_stack_, builder.lastIsTerm)
              \o (IF fn.retTy = "void" THEN <<Ret(NoVal)>> ELSE <<Unreachable>>)
         ELSE <<Ret(IF fn.retTy = "void" THEN NoVal ELSE Val(fn.retTy, "none"))>>

\* The part after the body loop: fall-through terminator, popScope, verifyFunction.
FunctionEnd ==
    /\ pc = "body"
    /\ nest = <<>>
    /\ pc' = "top"
    /\ Emit(FallThrough)
    /\ scope_stack_' = IF fn.kind = "function" THEN popScope(scope_stack_) ELSE scope_stack_
    /\ last' = Step("FunctionEnd", ~broken', loop_stack_, FALSE, FALSE)
    /\ UNCHANGED <<fn, stmtCount, ctlSerial, nest, loop_stack_, named_values_, error_count_>>
    /\ UNCHANGED otherThanCodegen

\* ------------------------------------------------------------ statements
\* ReturnStmt::codegen
ReturnCode(r) ==
    LET afterValue == AfterEmit(builder, r.code)
    IN  r.code \o releaseAllInScope(scope_stack_, afterValue.lastIsTerm) \o <<Ret(r.val)>>

ReturnStmt(hasValue, e) ==
    /\ InBody
    /\ stmtCount' = stmtCount + 1
    /\ LET r == IF hasValue THEN ExprCodegen(e) ELSE Produced(NoVal, <<>>)
           mismatch == hasValue # (fn.retTy # "void")
       IN  IF mismatch \/ ~r.ok
           THEN /\ logError
                /\ Emit(<<>>)
                /\ last' = Step("ReturnStmt", FALSE, loop_stack_, FALSE, FALSE)
           ELSE /\ Emit(ReturnCode(r))
                /\ last' = Step("ReturnStmt", TRUE, loop_stack_, FALSE, FALSE)
                /\ UNCHANGED error_count_
    /\ UNCHANGED <<pc, fn, ctlSerial, nest, loop_stack_, scope_stack_, named_values_>>
    /\ UNCHANGED otherThanCodegen

\* VarDeclStmt::codegen: the alloca goes to the top of the entry block
VarDeclStmt(name, type, e) ==
    /\ InBody
    /\ stmtCount' = stmtCount + 1
    /\ LET r == ExprCodegen(e)
           alloca == Alloca(toLLVMType(type), r.val.obj)
       IN  IF ~r.ok
           THEN /\ logError
                /\ Emit(<<>>)
                /\ last' = Step("VarDeclStmt", FALSE, loop_stack_, FALSE, FALSE)
                /\ UNCHANGED <<named_values_, scope_stack_>>
           ELSE /\ Emit(r.code \o <<Store(r.val)>>)
                /\ named_values_' = [named_values_ EXCEPT ![name] = alloca]
                /\ scope_stack_' = IF type = "Array"
                                   THEN trackVariable(scope_stack_, name, alloca)
                                   ELSE scope_stack_
                /\ last' = Step("VarDeclStmt", TRUE, loop_stack_, FALSE, FALSE)
                /\ UNCHANGED error_count_
    /\ UNCHANGED <<pc, fn, ctlSerial, nest, loop_stack_>>
    /\ UNCHANGED otherThanCodegen

\* a variant of the assignment sequence that retains the new value before it
\* releases the old one
AssignVarCode_RetainFirst(alloca, val) ==
    (IF val.ty = "ptr"
     THEN <<Call("aurora_retain", val)>>
          \o (IF alloca.allocatedType = "ptr"
              THEN <<Load(Val("ptr", alloca.holds)), Call("aurora_release", Val("ptr", alloca.holds))>>
              ELSE <<>>)
     ELSE <<>>)
    \o <<Store(val)>>

\* AssignStmt::codegen, variable target: the memory-management part and the store
AssignVarCode(alloca, val) ==
    (IF needsMemoryManagement(val.ty)
     THEN insertRelease(alloca) \o insertRetain(val)
     ELSE <<>>)
    \o <<Store(val)>>

AssignStmt(name, e) ==
    /\ InBody
    /\ stmtCount' = stmtCount + 1
    /\ LET r == ExprCodegen(e)
           alloca == named_values_[name]
       IN  IF ~r.ok \/ alloca = Null
           THEN /\ logError
                /\ Emit(r.code)
                /\ last' = Step("AssignStmt", FALSE, loop_stack_, FALSE, FALSE)
                /\ UNCHANGED named_values_
           ELSE /\ Emit(r.code \o AssignVarCode(alloca, r.val))
                /\ named_values_' = [named_values_ EXCEPT ![name].holds = r.val.obj]
                /\ last' = Step("AssignStmt", TRUE, loop_stack_,
                                needsMemoryManagement(r.val.ty),
                                needsMemoryManagement(alloca.allocatedType))
                /\ UNCHANGED error_count_
    /\ UNCHANGED <<pc, fn, ctlSerial, nest, loop_stack_, scope_stack_>>
    /\ UNCHANGED otherThanCodegen

\* BreakStmt::codegen / ContinueStmt::codegen
JumpStmt(op) ==
    /\ InBody
    /\ stmtCount' = stmtCount + 1
    /\ LET loop == getCurrentLoop(loop_stack_)
       IN  IF loop = NoLoop
           THEN /\ logError
                /\ Emit(<<>>)
                /\ last' = Step(op, FALSE, loop_stack_, FALSE, FALSE)
           ELSE /\ Emit(<<Br(IF op = "BreakStmt" THEN loop.breakTarget
                                                   ELSE loop.continueTarget)>>)
                /\ last' = Step(op, TRUE, loop_stack_, FALSE, FALSE)
                /\ UNCHANGED error_count_
    /\ UNCHANGED <<pc, fn, ctlSerial, nest, loop_stack_, scope_stack_, named_values_>>
    /\ UNCHANGED otherThanCodegen

\* a control statement ran its part before the body: `is` went into the old insert
\* block and the blocks it opened, and the builder now points at the fresh block blk
Open(is, blk, illTyped) ==
    /\ emitted' = is
    /\ builder' = SetInsertPoint(blk)
    /\ broken' = (broken \/ (is # <<>> /\ builder.hasTerm) \/ illTyped)

Top == nest[Len(nest)]
Pop(s) == SubSeq(s, 1, Len(s) - 1)

\* the branch a body or branch ends with when its last block has no terminator
CloseWith(target) == IF builder.lastIsTerm THEN <<>> ELSE <<Br(target)>>

\* WhileStmt::codegen up to the body, the condition generated successfully.  The
\* condition is always compared with fcmp one, whatever its type.
WhileStmtBegin(condTy) ==
    /\ InBody /\ Len(nest) < MaxDepth
    /\ stmtCount' = stmtCount + 1
    /\ ctlSerial' = ctlSerial + 1
    /\ LET id == ctlSerial + 1
       IN  /\ loop_stack_' = pushLoopContext(loop_stack_, Blk("afterwhile", id), Blk("whilecond", id))
           /\ Open(<<Br(Blk("whilecond", id)), Cmp("fcmp one"), CondBr>>,
                   Blk("whilebody", id), condTy # "double")
           /\ nest' = Append(nest, Frame("WhileStmt", id, FALSE))
    /\ last' = Step("WhileStmtBegin", TRUE, loop_stack_, FALSE, FALSE)
    /\ UNCHANGED <<pc, fn, scope_stack_, named_values_, error_count_>>
    /\ UNCHANGED otherThanCodegen

\* WhileStmt::codegen when the condition fails to generate: `return nullptr`
WhileStmtCondFails ==
    /\ InBody
    /\ stmtCount' = stmtCount + 1
    /\ ctlSerial' = ctlSerial + 1
    /\ logError
    /\ LET id == ctlSerial + 1
       IN  /\ loop_stack_' = pushLoopContext(loop_stack_, Blk("afterwhile", id), Blk("whilecond", id))
           /\ Open(<<Br(Blk("whilecond", id))>>, Blk("whilecond", id), FALSE)
    /\ last' = Step("WhileStmt", FALSE, loop_stack_, FALSE, FALSE)
    /\ UNCHANGED <<pc, fn, nest, scope_stack_, named_values_>>
    /\ UNCHANGED otherThanCodegen

\* WhileStmt::codegen after the body
WhileStmtEnd ==
    /\ pc = "body" /\ nest # <<>> /\ Top.kind = "WhileStmt"
    /\ loop_stack_' = popLoopContext(loop_stack_)
    /\ emitted' = CloseWith(Blk("whilecond", Top.id))
    /\ builder' = SetInsertPoint(Blk("afterwhile", Top.id))
    /\ broken' = (broken \/ Misplaced(builder, CloseWith(Blk("whilecond", Top.id))))
    /\ nest' = Pop(nest)
    /\ last' = Step("WhileStmt", TRUE, Top.before, FALSE, FALSE)
    /\ UNCHANGED <<pc, fn, stmtCount, ctlSerial, scope_stack_, named_values_, error_count_>>
    /\ UNCHANGED otherThanCodegen

\* ForStmt::codegen up to the body; the range bounds are generated before the push
ForStmtBegin ==
    /\ InBody /\ Len(nest) < MaxDepth
    /\ stmtCount' = stmtCount + 1
    /\ ctlSerial' = ctlSerial + 1
    /\ LET id == ctlSerial + 1
       IN  /\ loop_stack_' = pushLoopContext(loop_stack_, Blk("afterfor", id), Blk("forstep", id))
           /\ Open(<<Store(NoVal), Br(Blk("forcond", id)), Load(NoVal), Cmp("icmp slt"), CondBr>>,
                   Blk("forbody", id), FALSE)
           /\ nest' = Append(nest, Frame("ForStmt", id, FALSE))
    /\ last' = Step("ForStmtBegin", TRUE, loop_stack_, FALSE, FALSE)
    /\ UNCHANGED <<pc, fn, scope_stack_, named_values_, error_count_>>
    /\ UNCHANGED otherThanCodegen

\* ForStmt::codegen when a range bound fails to generate
ForStmtBoundFails ==
    /\ InBody
    /\ stmtCount' = stmtCount + 1
    /\ logError
    /\ Emit(<<>>)
    /\ last' = Step("ForStmt", FALSE, loop_stack_, FALSE, FALSE)
    /\ UNCHANGED <<pc, fn, ctlSerial, nest, loop_stack_, scope_stack_, named_values_>>
    /\ UNCHANGED otherThanCodegen

\* ForStmt::codegen after the body: the step block, then the pop
ForStmtEnd ==
    /\ pc = "body" /\ nest # <<>> /\ Top.kind = "ForStmt"
    /\ loop_stack_' = popLoopContext(loop_stack_)
    /\ emitted' = CloseWith(Blk("forstep", Top.id))
                  \o <<Load(NoVal), Cmp("add"), Store(NoVal), Br(Blk("forcond", Top.id))>>
    /\ builder' = SetInsertPoint(Blk("afterfor", Top.id))
    /\ broken' = (broken \/ Misplaced(builder, CloseWith(Blk("forstep", Top.id))))
    /\ nest' = Pop(nest)
    /\ last' = Step("ForStmt", TRUE, Top.before, FALSE, FALSE)
    /\ UNCHANGED <<pc, fn, stmtCount, ctlSerial, scope_stack_, named_values_, error_count_>>
    /\ UNCHANGED otherThanCodegen

\* LoopStmt::codegen up to the body
LoopStmtBegin ==
    /\ InBody /\ Len(nest) < MaxDepth
    /\ stmtCount' = stmtCount + 1
    /\ ctlSerial' = ctlSerial + 1
    /\ LET id == ctlSerial + 1
       IN  /\ loop_stack_' = pushLoopContext(loop_stack_, Blk("afterloop", id), Blk("loopbody", id))
           /\ Open(<<Br(Blk("loopbody", id))>>, Blk("loopbody", id), FALSE)
           /\ nest' = Append(nest, Frame("LoopStmt", id, FALSE))
    /\ last' = Step("LoopStmtBegin", TRUE, loop_stack_, FALSE, FALSE)
    /\ UNCHANGED <<pc, fn, scope_stack_, named_values_, error_count_>>
    /\ UNCHANGED otherThanCodegen

\* LoopStmt::codegen after the body
LoopStmtEnd ==
    /\ pc = "body" /\ nest # <<>> /\ Top.kind = "LoopStmt"
    /\ loop_stack_' = popLoopContext(loop_stack_)
    /\ emitted' = CloseWith(Blk("loopbody", Top.id))
    /\ builder' = SetInsertPoint(Blk("afterloop", Top.id))
    /\ broken' = (broken \/ Misplaced(builder, CloseWith(Blk("loopbody", Top.id))))
    /\ nest' = Pop(nest)
    /\ last' = Step("LoopStmt", TRUE, Top.before, FALSE, FALSE)
    /\ UNCHANGED <<pc, fn, stmtCount, ctlSerial, scope_stack_, named_values_, error_count_>>
    /\ UNCHANGED otherThanCodegen

\* IfStmt::codegen up to the then branch
IfStmtBegin ==
    /\ InBody /\ Len(nest) < MaxDepth
    /\ stmtCount' = stmtCount + 1
    /\ ctlSerial' = ctlSerial + 1
    /\ Open(<<CondBr>>, Blk("then", ctlSerial + 1), FALSE)
    /\ nest' = Append(nest, Frame("IfThen", ctlSerial + 1, FALSE))
    /\ last' = Step("IfStmtBegin", TRUE, loop_stack_, FALSE, FALSE)
    /\ UNCHANGED <<pc, fn, loop_stack_, scope_stack_, named_values_, error_count_>>
    /\ UNCHANGED otherThanCodegen

\* IfStmt::codegen when the condition fails to generate or has no boolean conversion
IfStmtCondFails ==
    /\ InBody
    /\ stmtCount' = stmtCount + 1
    /\ logError
    /\ Emit(<<>>)
    /\ last' = Step("IfStmt", FALSE, loop_stack_, FALSE, FALSE)
    /\ UNCHANGED <<pc, fn, ctlSerial, nest, loop_stack_, scope_stack_, named_values_>>
    /\ UNCHANGED otherThanCodegen

\* IfStmt::codegen between the then and the else branch
IfStmtElse ==
    /\ pc = "body" /\ nest # <<>> /\ Top.kind = "IfThen"
    /\ emitted' = CloseWith(Blk("ifcont", Top.id))
    /\ builder' = SetInsertPoint(Blk("else", Top.id))
    /\ broken' = (broken \/ Misplaced(builder, CloseWith(Blk("ifcont", Top.id))))
    /\ nest' = [nest EXCEPT ![Len(nest)] = [@ EXCEPT !.kind = "IfElse", !.thenTerm = builder.lastIsTerm]]
    /\ last' = Step("IfStmtElse", TRUE, loop_stack_, FALSE, FALSE)
    /\ UNCHANGED <<pc, fn, stmtCount, ctlSerial, loop_stack_, scope_stack_, named_values_, error_count_>>
    /\ UNCHANGED otherThanCodegen

\* IfStmt::codegen after the else branch: the merge block, or a fresh unreachable block
IfStmtEnd ==
    /\ pc = "body" /\ nest # <<>> /\ Top.kind = "IfElse"
    /\ emitted' = CloseWith(Blk("ifcont", Top.id))
    /\ builder' = SetInsertPoint(IF ~Top.thenTerm \/ ~builder.lastIsTerm
                                 THEN Blk("ifcont", Top.id) ELSE Blk("unreachable", Top.id))
    /\ broken' = (broken \/ Misplaced(builder, CloseWith(Blk("ifcont", Top.id))))
    /\ nest' = Pop(nest)
    /\ last' = Step("IfStmt", TRUE, Top.before, FALSE, FALSE)
    /\ UNCHANGED <<pc, fn, stmtCount, ctlSerial, loop_stack_, scope_stack_, named_values_, error_count_>>
    /\ UNCHANGED otherThanCodegen

\* ================================================================ runtime
\* aurora_runtime.c: the reference-counting header operations.  An object id names
\* one allocation; NULL is the null pointer.
NULL == 0
Objects == 1..MaxObjects

AURORA_TYPE_OBJECT == 1
AURORA_TYPE_ARRAY == 2
AURORA_TYPE_STRING == 3
ObjectTypes == {AURORA_TYPE_OBJECT, AURORA_TYPE_ARRAY, AURORA_TYPE_STRING}

Unallocated == [state |-> "unallocated", ref_count |-> 0, type |-> 0, frees |-> 0, freedBy |-> "none"]

\* aurora_object_create / aurora_array_create / aurora_string_create: the header they write
Created(type) == [state |-> "live", ref_count |-> 1, type |-> type, frees |-> 0, freedBy |-> "none"]

\* the switch of aurora_release on the type tag
FreeFunction(type) ==
    CASE type = AURORA_TYPE_OBJECT -> "aurora_object_free"
      [] type = AURORA_TYPE_ARRAY  -> "aurora_array_free"
      [] type = AURORA_TYPE_STRING -> "aurora_string_free"
      [] OTHER                     -> "aurora_panic"

\* the object after its type-specific free function ran
Freed(o, rc) ==
    [state |-> "freed", ref_count |-> rc, type |-> o.type,
     frees |-> o.frees + 1, freedBy |-> FreeFunction(o.type)]

\* aurora_retain(ptr): the heap after the call and the value returned
aurora_retain(h, ptr) ==
    IF ptr = NULL THEN [heap |-> h, ret |-> NULL]
    ELSE [heap |-> [h EXCEPT ![ptr].ref_count = @ + 1], ret |-> ptr]

\* a release that frees the object while another reference remains
aurora_release_FreesEarly(h, ptr) ==
    IF ptr = NULL THEN h
    ELSE IF h[ptr].ref_count - 1 <= 1
         THEN [h EXCEPT ![ptr] = Freed(@, h[ptr].ref_count - 1)]
         ELSE [h EXCEPT ![ptr].ref_count = @ - 1]

\* aurora_release(ptr): the heap after the call
aurora_release(h, ptr) ==
    IF ptr = NULL THEN h
    ELSE LET rc == h[ptr].ref_count - 1
         IN  IF rc <= 0
             THEN [h EXCEPT ![ptr] = Freed(@, rc)]
             ELSE [h EXCEPT ![ptr].ref_count = rc]

\* aurora_get_ref_count(ptr)
aurora_get_ref_count(h, ptr) == IF ptr = NULL THEN 0 ELSE h[ptr].ref_count

RtStep(op, ptr, r) == [op |-> op, ptr |-> ptr, ret |-> r, before |-> heap]

IdleRuntime ==
    /\ heap = [o \in Objects |-> Unallocated]
    /\ rtLast = [op |-> "none", ptr |-> NULL, ret |-> NULL, before |-> [o \in Objects |-> Unallocated]]

\* the program allocates an object, array or string
Create(o, type) ==
    /\ heap[o].state = "unallocated"
    /\ heap' = [heap EXCEPT ![o] = Created(type)]
    /\ rtLast' = RtStep("create", o, o)
    /\ UNCHANGED otherThanRuntime

\* the pointers a program may pass: null, or an object it has not freed
Usable(ptr) == IF ptr = NULL THEN TRUE ELSE heap[ptr].state = "live"

\* a call of aurora_retain
Retain(ptr) ==
    /\ Usable(ptr)
    /\ aurora_get_ref_count(heap, ptr) < MaxRefs
    /\ heap' = aurora_retain(heap, ptr).heap
    /\ rtLast' = RtStep("aurora_retain", ptr, aurora_retain(heap, ptr).ret)
    /\ UNCHANGED otherThanRuntime

\* a call of aurora_release
Release(ptr) ==
    /\ Usable(ptr)
    /\ heap' = aurora_release(heap, ptr)
    /\ rtLast' = RtStep("aurora_release", ptr, NULL)
    /\ UNCHANGED otherThanRuntime

NextRuntime ==
    \/ \E o \in Objects, type \in ObjectTypes : Create(o, type)
    \/ \E ptr \in Objects \cup {NULL} : Retain(ptr)
    \/ \E ptr \in Objects \cup {NULL} : Release(ptr)

\* ========================================================== module loader
\* ModuleLoader.cpp, ImportDecl::load, and the import loop of compileAndRun.
\* A path is the sequence of its components.  The compiler runs in the project
\* root; the main file is app/main.aur, and the module files are app/U.aur,
\* lib/U.aur and lib/B.aur.  There is no stdlib directory below the root.
MainFile == <<"app", "main">>
Modules == {<<"app", "U">>, <<"lib", "U">>, <<"lib", "B">>}
NoFile == <<>>

\* the module paths an import declaration may spell
PreludePath == <<"stdlib", "aurora", "core", "prelude">>
ImportTargets == {<<"U">>, <<"..", "app", "U">>, <<"..", "lib", "B">>, <<"missing">>}

\* each file declares one class, named after the file: app/U.aur and lib/U.aur
\* both declare a class U, with different fields
ClassOf(file) == file[Len(file)]
FieldsOf(file) ==
    CASE file = <<"app", "U">> -> <<"Int">>
      [] file = <<"lib", "U">> -> <<"Int", "String">>
      [] file = <<"lib", "B">> -> <<"Double">>
      [] OTHER                 -> <<"Int", "Double">>

\* ClassDecl::codegen: the struct type of that name if the context has one,
\* otherwise a new struct type made of the fields' LLVM types
StructNamed(structs, name) == CHOOSE st \in structs : st.name = name
ClassDeclCodegen(structs, name, fields) ==
    IF \E st \in structs : st.name = name THEN structs
    ELSE structs \cup {[name |-> name, fields |-> ClassStructFields(fields)]}

\* the import declarations a module file may hold: up to two distinct paths, in order
ImportLists ==
    {<<>>} \cup {<<m>> : m \in ImportTargets}
           \cup ({<<m, n>> : m \in ImportTargets, n \in ImportTargets}
                 \ {<<m, m>> : m \in ImportTargets})

RECURSIVE SumLen(_, _)
SumLen(f, S) ==
    IF S = {} THEN 0
    ELSE LET m == CHOOSE x \in S : TRUE IN Len(f[m]) + SumLen(f, S \ {m})

\* the import declarations in all module files
ImportDeclCount == SumLen(files, Modules)

\* what the file system makes of a path: "x/.." names the directory holding x
RECURSIVE Normalise(_, _)
Normalise(done, rest) ==
    IF rest = <<>> THEN done
    ELSE IF Head(rest) = ".." /\ done # <<>> /\ done[Len(done)] # ".."
    THEN Normalise(SubSeq(done, 1, Len(done) - 1), Tail(rest))
    ELSE Normalise(Append(done, Head(rest)), Tail(rest))

\* std::filesystem::exists(path + ".aur"), the path taken from the working directory
exists(path) == Normalise(<<>>, path) \in Modules

parent_path(file) == SubSeq(file, 1, Len(file) - 1)

\* lines 37-126 for a module path without dots: the path as it stands if that
\* file exists, else the path below the directory of the importing file
resolve(currentFile, modulePath) ==
    LET resolvedPath == IF exists(modulePath) THEN modulePath
                        ELSE parent_path(currentFile) \o modulePath
    IN  IF exists(resolvedPath) THEN Normalise(<<>>, resolvedPath) ELSE NoFile

NoSkip == [taken |-> FALSE]

IdleLoader ==
    /\ files = [m \in Modules |-> <<>>]
    /\ loadedModules = {}
    /\ loadStack = <<>>
    /\ ret = "none"
    /\ loadCalls = 0
    /\ requests = 0
    /\ ldResult = "none"
    /\ mainPhase = "imports"
    /\ mainImports = <<>>
    /\ structTypes = {}
    /\ codegenLog = {}
    /\ loadedFiles = {}
    /\ lastSkip = NoSkip

InitLoader ==
    /\ files \in [Modules -> ImportLists]
    /\ ImportDeclCount <= MaxImports
    /\ loadedModules = {}
    /\ loadStack = <<>>
    /\ ret = "none"
    /\ loadCalls = 0
    /\ requests = 0
    /\ ldResult = "none"
    /\ mainPhase = "imports"
    /\ mainImports = <<>>
    /\ structTypes = {}
    /\ codegenLog = {}
    /\ loadedFiles = {}
    /\ lastSkip = NoSkip

\* ImportDecl::load(currentFile) of the declaration `import modulePath`, from its
\* entry to the recursive loads: the loadedModules check, path resolution, opening
\* and parsing the file.  The open file, the source text and the parser live in the
\* call's frame until it returns.
load(stack, currentFile, modulePath, parses) ==
    IF modulePath \in loadedModules
    THEN [ret |-> "true", stack |-> stack, skipped |-> TRUE]
    ELSE IF resolve(currentFile, modulePath) = NoFile
    THEN [ret |-> "false", stack |-> stack, skipped |-> FALSE]
    ELSE IF ~parses
    THEN [ret |-> "false", stack |-> stack, skipped |-> FALSE]
    ELSE [ret |-> "none",
          stack |-> Append(stack, [module |-> modulePath,
                                   file |-> resolve(currentFile, modulePath),
                                   next |-> 1]),
          skipped |-> FALSE]

\* history of a call of load: the file the skipped request names
Skip(call, currentFile, modulePath) ==
    IF call.skipped
    THEN [taken |-> TRUE, by |-> currentFile, module |-> modulePath,
          file |-> resolve(currentFile, modulePath), loaded |-> loadedFiles]
    ELSE lastSkip

Running == loadStack # <<>> /\ ret = "none" /\ ldResult # "crashed"
TopFrame == loadStack[Len(loadStack)]
NextImport == files[TopFrame.file][TopFrame.next]
NextFile == resolve(TopFrame.file, NextImport)

\* compileAndRun asks for the prelude, then for the modules of the main file's
\* import list
LoadRequest(modulePath, parses) ==
    /\ loadStack = <<>> /\ ret = "none" /\ ldResult # "crashed"
    /\ mainPhase = "imports"
    /\ requests < MaxRequests
    /\ (requests = 0) = (modulePath = PreludePath)
    /\ requests' = requests + 1
    /\ loadCalls' = 1
    /\ mainImports' = IF requests = 0 THEN mainImports ELSE Append(mainImports, modulePath)
    /\ LET call == load(loadStack, MainFile, modulePath, parses)
       IN  /\ ret' = call.ret
           /\ loadStack' = call.stack
           /\ lastSkip' = Skip(call, MainFile, modulePath)
    /\ ldResult' = "none"
    /\ UNCHANGED <<files, loadedModules, mainPhase, structTypes, codegenLog, loadedFiles>>
    /\ UNCHANGED otherThanLoader

\* the loop over subImports: the next recursive load
LoadSubImport(parses) ==
    /\ Running
    /\ TopFrame.next <= Len(files[TopFrame.file])
    /\ IF Len(loadStack) < MaxLoadDepth THEN TRUE
       ELSE NextImport \in loadedModules \/ NextFile = NoFile
    /\ LET advanced == [loadStack EXCEPT ![Len(loadStack)].next = @ + 1]
           call == load(advanced, TopFrame.file, NextImport, parses)
       IN  /\ ret' = call.ret
           /\ loadStack' = call.stack
           /\ lastSkip' = Skip(call, TopFrame.file, NextImport)
    /\ loadCalls' = loadCalls + 1
    /\ UNCHANGED <<files, loadedModules, requests, ldResult, mainPhase, mainImports,
                   structTypes, codegenLog, loadedFiles>>
    /\ UNCHANGED otherThanLoader

\* the recursion has used up the process: either the next file cannot be opened
\* (no file descriptor left), and load returns false, or the stack overflows
LoadExhausted(crash) ==
    /\ Running
    /\ TopFrame.next <= Len(files[TopFrame.file])
    /\ NextImport \notin loadedModules /\ NextFile # NoFile
    /\ Len(loadStack) = MaxLoadDepth
    /\ loadCalls' = loadCalls + 1
    /\ IF crash
       THEN ldResult' = "crashed" /\ UNCHANGED <<ret, loadStack>>
       ELSE /\ ret' = "false"
            /\ loadStack' = [loadStack EXCEPT ![Len(loadStack)].next = @ + 1]
            /\ UNCHANGED ldResult
    /\ UNCHANGED <<files, loadedModules, requests, mainPhase, mainImports,
                   structTypes, codegenLog, loadedFiles, lastSkip>>
    /\ UNCHANGED otherThanLoader

\* a sub-import returned true: the loop goes on
LoadSubImportOk ==
    /\ loadStack # <<>> /\ ret = "true"
    /\ ret' = "none"
    /\ UNCHANGED <<files, loadedModules, loadStack, loadCalls, requests, ldResult,
                   mainPhase, mainImports, structTypes, codegenLog, loadedFiles,
                   lastSkip>>
    /\ UNCHANGED otherThanLoader

\* a sub-import returned false: `return false`
LoadSubImportFails ==
    /\ loadStack # <<>> /\ ret = "false"
    /\ loadStack' = SubSeq(loadStack, 1, Len(loadStack) - 1)
    /\ UNCHANGED <<files, loadedModules, ret, loadCalls, requests, ldResult,
                   mainPhase, mainImports, structTypes, codegenLog, loadedFiles,
                   lastSkip>>
    /\ UNCHANGED otherThanLoader

\* The files whose Parser object exists: the main file's, a local of compileAndRun,
\* and those of the active load calls, each a local of its call's try block.  A
\* Parser owns the ClassDecls of its file (classes_), and parseClassOrObject has
\* pointed the registry's ClassType at them with setDecl.
ParsersAlive(stack) == {MainFile} \cup {stack[i].file : i \in DOMAIN stack}

\* what a file's code generation found: the struct types in the LLVM context when
\* its first method body starts, the files whose load had returned true, and the
\* files whose class declarations still exist
Generated(unit, imports, structs) ==
    [unit |-> unit, imports |-> imports, structs |-> structs, loaded |-> loadedFiles,
     struct |-> StructNamed(structs, ClassOf(unit)), alive |-> ParsersAlive(loadStack)]

\* after the sub-imports: the class structs, the methods and the functions are
\* codegenLog, in this order, and only then the module is marked as loaded
LoadFinish(codegenOk) ==
    /\ Running
    /\ TopFrame.next > Len(files[TopFrame.file])
    /\ loadStack' = SubSeq(loadStack, 1, Len(loadStack) - 1)
    /\ structTypes' = ClassDeclCodegen(structTypes, ClassOf(TopFrame.file),
                                       FieldsOf(TopFrame.file))
    /\ codegenLog' = codegenLog \cup
           {Generated(TopFrame.file, files[TopFrame.file], structTypes')}
    /\ IF codegenOk
       THEN /\ loadedModules' = loadedModules \cup {TopFrame.module}
            /\ loadedFiles' = loadedFiles \cup {TopFrame.file}
            /\ ret' = "true"
       ELSE UNCHANGED <<loadedModules, loadedFiles>> /\ ret' = "false"
    /\ UNCHANGED <<files, loadCalls, requests, ldResult, mainPhase, mainImports,
                   lastSkip>>
    /\ UNCHANGED otherThanLoader

\* the top-level call has returned to compileAndRun: a failed prelude is a warning,
\* a failed import is `return 1`
LoadReturns ==
    /\ loadStack = <<>> /\ ret # "none"
    /\ ldResult' = ret
    /\ ret' = "none"
    /\ mainPhase' = IF ret = "false" /\ requests > 1 THEN "aborted" ELSE mainPhase
    /\ UNCHANGED <<files, loadedModules, loadStack, loadCalls, requests, mainImports,
                   structTypes, codegenLog, loadedFiles, lastSkip>>
    /\ UNCHANGED otherThanLoader

\* compileAndRun after the import loop: the class structs, the methods and the
\* functions of the main file
MainCodegen ==
    /\ loadStack = <<>> /\ ret = "none" /\ ldResult # "crashed"
    /\ mainPhase = "imports"
    /\ requests >= 1
    /\ mainPhase' = "generated"
    /\ structTypes' = ClassDeclCodegen(structTypes, ClassOf(MainFile), FieldsOf(MainFile))
    /\ codegenLog' = codegenLog \cup {Generated(MainFile, mainImports, structTypes')}
    /\ UNCHANGED <<files, loadedModules, loadStack, ret, loadCalls, requests, ldResult,
                   mainImports, loadedFiles, lastSkip>>
    /\ UNCHANGED otherThanLoader

NextLoader ==
    \/ \E m \in ImportTargets \cup {PreludePath}, parses \in BOOLEAN : LoadRequest(m, parses)
    \/ \E parses \in BOOLEAN : LoadSubImport(parses)
    \/ \E crash \in BOOLEAN : LoadExhausted(crash)
    \/ LoadSubImportOk
    \/ LoadSubImportFails
    \/ \E codegenOk \in BOOLEAN : LoadFinish(codegenOk)
    \/ LoadReturns
    \/ MainCodegen

\* ================================================================= driver
\* aurora-cli main.cpp: main and compileAndRun.  `return false` in a function
\* returning int is `return 0`.
IdleDriver ==
    /\ plPc = "main"
    /\ emit_llvm = FALSE
    /\ hasErrors = FALSE
    /\ codegen_success = TRUE
    /\ declsDone = 0
    /\ failures = {}
    /\ irFile = "none"
    /\ jit = "none"
    /\ exitCode = "running"

InitDriver ==
    /\ plPc = "main"
    /\ emit_llvm \in BOOLEAN
    /\ hasErrors = FALSE
    /\ codegen_success = TRUE
    /\ declsDone = 0
    /\ failures = {}
    /\ irFile = "none"
    /\ jit = "none"
    /\ exitCode = "running"

\* the process ends with this exit status (return from main, or std::exit)
Exit(code) == plPc' = "exit" /\ exitCode' = code % 256

\* main: loadFile(filename)
LoadFile(opens) ==
    /\ plPc = "main"
    /\ IF opens
       THEN plPc' = "parse" /\ UNCHANGED <<hasErrors, failures, exitCode>>
       ELSE /\ hasErrors' = TRUE
            /\ failures' = failures \cup {"file cannot be opened"}
            /\ Exit(1)
    /\ UNCHANGED <<emit_llvm, codegen_success, declsDone, irFile, jit>>
    /\ UNCHANGED otherThanDriver

\* compileAndRun: parser.parseProgram(); Parser::error reports and throws
ParseProgram(parses) ==
    /\ plPc = "parse"
    /\ IF parses
       THEN plPc' = "prelude" /\ UNCHANGED <<hasErrors, failures, exitCode>>
       ELSE /\ hasErrors' = TRUE
            /\ failures' = failures \cup {"parse error"}
            /\ Exit(1)
    /\ UNCHANGED <<emit_llvm, codegen_success, declsDone, irFile, jit>>
    /\ UNCHANGED otherThanDriver

\* the prelude auto-import: a failed load is only a warning
LoadPrelude(loaded, diag) ==
    /\ plPc = "prelude"
    /\ plPc' = "imports"
    /\ hasErrors' = (hasErrors \/ diag)
    /\ UNCHANGED <<emit_llvm, codegen_success, declsDone, failures, irFile, jit, exitCode>>
    /\ UNCHANGED otherThanDriver

\* the loop over the file's imports
LoadImports(loaded, diag) ==
    /\ plPc = "imports"
    /\ hasErrors' = (hasErrors \/ diag)
    /\ IF loaded
       THEN plPc' = "classes" /\ UNCHANGED <<failures, exitCode>>
       ELSE failures' = failures \cup {"import load failure"} /\ Exit(1)
    /\ UNCHANGED <<emit_llvm, codegen_success, declsDone, irFile, jit>>
    /\ UNCHANGED otherThanDriver

\* the loop over classDecl->codegen(): ClassDecl::codegen always returns a struct type
ClassStructs ==
    /\ plPc = "classes"
    /\ plPc' = "methods"
    /\ declsDone' = 0
    /\ UNCHANGED <<emit_llvm, hasErrors, codegen_success, failures, irFile, jit, exitCode>>
    /\ UNCHANGED otherThanDriver

MethodOutcomes == {"generated", "erased", "throws"}

\* one MethodDecl::codegen inside the loop over classDecl->codegenMethods(): the
\* method is generated; or it fails verifyFunction, is erased and the nullptr is
\* dropped by codegenMethods; or an exception leaves codegenMethods
CodegenMethod(outcome, diag) ==
    /\ plPc = "methods"
    /\ declsDone < MaxDecls
    /\ declsDone' = declsDone + 1
    /\ hasErrors' = (hasErrors \/ diag)
    /\ CASE outcome = "generated" -> UNCHANGED <<plPc, failures, exitCode>>
         [] outcome = "erased" ->
                /\ failures' = failures \cup {"method generation failure"}
                /\ UNCHANGED <<plPc, exitCode>>
         [] outcome = "throws" ->
                /\ failures' = failures \cup {"method generation failure"}
                /\ Exit(0)
    /\ UNCHANGED <<emit_llvm, codegen_success, irFile, jit>>
    /\ UNCHANGED otherThanDriver

MethodsDone ==
    /\ plPc = "methods"
    /\ plPc' = "functions"
    /\ declsDone' = 0
    /\ UNCHANGED <<emit_llvm, hasErrors, codegen_success, failures, irFile, jit, exitCode>>
    /\ UNCHANGED otherThanDriver

\* one func->codegen() of the loop over functions; a nullptr ends the loop
CodegenFunction(generated, diag) ==
    /\ plPc = "functions"
    /\ declsDone < MaxDecls
    /\ declsDone' = declsDone + 1
    /\ hasErrors' = (hasErrors \/ diag)
    /\ IF generated
       THEN UNCHANGED <<plPc, codegen_success, failures>>
       ELSE /\ codegen_success' = FALSE
            /\ failures' = failures \cup {"function generation failure"}
            /\ plPc' = "check"
    /\ UNCHANGED <<emit_llvm, irFile, jit, exitCode>>
    /\ UNCHANGED otherThanDriver

FunctionsDone ==
    /\ plPc = "functions"
    /\ plPc' = "check"
    /\ UNCHANGED <<emit_llvm, hasErrors, codegen_success, declsDone, failures, irFile, jit, exitCode>>
    /\ UNCHANGED otherThanDriver

\* if (!codegen_success || diag.hasErrors()) return 1
CheckCodegen ==
    /\ plPc = "check"
    /\ IF ~codegen_success \/ hasErrors
       THEN Exit(1)
       ELSE plPc' = "verify" /\ UNCHANGED exitCode
    /\ UNCHANGED <<emit_llvm, hasErrors, codegen_success, declsDone, failures, irFile, jit>>
    /\ UNCHANGED otherThanDriver

\* verifyModule(&ctx.getModule(), false)
VerifyModule(verified) ==
    /\ plPc = "verify"
    /\ IF verified
       THEN /\ plPc' = (IF emit_llvm THEN "emit" ELSE "jit")
            /\ UNCHANGED <<failures, exitCode>>
       ELSE /\ failures' = failures \cup {"module verification failure"}
            /\ Exit(1)
    /\ UNCHANGED <<emit_llvm, hasErrors, codegen_success, declsDone, irFile, jit>>
    /\ UNCHANGED otherThanDriver

\* the --emit-llvm branch
EmitLLVM(opens) ==
    /\ plPc = "emit"
    /\ IF opens
       THEN irFile' = "written" /\ UNCHANGED failures
       ELSE failures' = failures \cup {"IR output file cannot be opened"} /\ UNCHANGED irFile
    /\ Exit(0)
    /\ UNCHANGED <<emit_llvm, hasErrors, codegen_success, declsDone, jit>>
    /\ UNCHANGED otherThanDriver

\* ctx.initializeJIT()
InitializeJIT(initialized) ==
    /\ plPc = "jit"
    /\ IF initialized
       THEN jit' = "initialized" /\ plPc' = "run" /\ UNCHANGED exitCode
       ELSE UNCHANGED jit /\ Exit(1)
    /\ UNCHANGED <<emit_llvm, hasErrors, codegen_success, declsDone, failures, irFile>>
    /\ UNCHANGED otherThanDriver

\* ctx.runMain() and std::exit(result): the program's own result, or -1 without a main
RunMain(result) ==
    /\ plPc = "run"
    /\ jit' = "ran"
    /\ Exit(result)
    /\ UNCHANGED <<emit_llvm, hasErrors, codegen_success, declsDone, failures, irFile>>
    /\ UNCHANGED otherThanDriver

NextDriver ==
    \/ \E opens \in BOOLEAN : LoadFile(opens)
    \/ \E parses \in BOOLEAN : ParseProgram(parses)
    \/ \E loaded \in BOOLEAN, diag \in BOOLEAN : LoadPrelude(loaded, diag)
    \/ \E loaded \in BOOLEAN, diag \in BOOLEAN : LoadImports(loaded, diag)
    \/ ClassStructs
    \/ \E outcome \in MethodOutcomes, diag \in BOOLEAN : CodegenMethod(outcome, diag)
    \/ MethodsDone
    \/ \E generated \in BOOLEAN, diag \in BOOLEAN : CodegenFunction(generated, diag)
    \/ FunctionsDone
    \/ CheckCodegen
    \/ \E verified \in BOOLEAN : VerifyModule(verified)
    \/ \E opens \in BOOLEAN : EmitLLVM(opens)
    \/ \E initialized \in BOOLEAN : InitializeJIT(initialized)
    \/ \E result \in {-1, 0, 1} : RunMain(result)

\* the declarations of the input programs: `let name: type = init` with an
\* initializer of the declared type, or one that fails to generate
Decls ==
    { [type |-> "Int",    init |-> [kind |-> "IntLiteralExpr",   name |-> "-"]],
      [type |-> "String", init |-> [kind |-> "StringExpr",       name |-> "-"]],
      [type |-> "Array",  init |-> [kind |-> "ArrayLiteralExpr", name |-> "-"]],
      [type |-> "Class",  init |-> [kind |-> "NewExpr",          name |-> "-"]],
      [type |-> "Int",    init |-> [kind |-> "VariableExpr",     name |-> "undeclared"]] }

\* ====================================================== Optional variables
\* Type.cpp OptionalType::toLLVMType, StmtCodeGen.cpp VarDeclStmt / AssignStmt,
\* ExprCodeGen.cpp NullExpr, VariableExpr and the null comparison of BinaryExpr.
\* A variable of type T? is an alloca of the struct { i1 has_value, T payload }.
ByteValues == 256   \* values of the byte that holds the i1 at offset 0

\* OptionalType::toLLVMType
OptionalLLVMType(inner) == <<"i1", toLLVMType(inner)>>

OptionalInners == {"Bool", "Int"}

\* the values of an initializer or right-hand side of type T
PlainValues(inner) ==
    IF inner = "Bool" THEN {0, 1} ELSE (0 .. MaxOptInt) \cup {ByteValues}

NullLiteral == -1   \* the null literal among the initializers (values are 0 and up)
Undef == -2         \* memory nothing has been written to
NothingStored == -3 \* no store into the variable yet

\* createEntryBlockAlloca: fresh stack memory, nothing written yet
FreshAlloca(inner) == [inner |-> inner, byte0 |-> Undef, payload |-> Undef]

\* NullExpr::codegen with the variable's optional type resolved: the constant
\* zeroinitializer of { i1, T }; any other initializer is a value of LLVM type T.
\* A value's type is the sequence of its field types.
InitValue(inner, v) ==
    IF v = NullLiteral
    THEN [ty |-> OptionalLLVMType(inner), bits |-> 0]
    ELSE [ty |-> <<toLLVMType(inner)>>, bits |-> v]

\* CreateStore(val, alloca): the value is written at offset 0 of the alloca in its
\* own type.  A struct constant fills both fields; an i1 or i64 covers the byte of
\* has_value and leaves the payload field, which starts at a higher offset, alone.
CreateStore(val, alloca) ==
    IF val.ty = OptionalLLVMType(alloca.inner)
    THEN [alloca EXCEPT !.byte0 = 0, !.payload = 0]
    ELSE [alloca EXCEPT !.byte0 = val.bits % ByteValues]

\* CreateLoad of the struct followed by CreateExtractValue(_, 0): the i1 read from
\* the first byte.  Reading an i1 from a byte that holds neither 0 nor 1 has no
\* defined result.
HasValueRead(alloca) ==
    IF alloca.byte0 = 0 THEN {FALSE}
    ELSE IF alloca.byte0 = 1 THEN {TRUE}
    ELSE BOOLEAN

Undeclared == [inner |-> "none", byte0 |-> Undef, payload |-> Undef]
NoCompare == [op |-> "none", name |-> "none", result |-> FALSE]

IdleOptional ==
    /\ optionals = [n \in VarNames |-> Undeclared]
    /\ optStored = [n \in VarNames |-> NothingStored]
    /\ optLast = NoCompare

\* VarDeclStmt::codegen for `var name: T? = init`
VarDeclOptional(name, inner, init) ==
    /\ init \in PlainValues(inner) \cup {NullLiteral}
    /\ optionals' = [optionals EXCEPT
           ![name] = CreateStore(InitValue(inner, init), FreshAlloca(inner))]
    /\ optStored' = [optStored EXCEPT ![name] = init]
    /\ optLast' = NoCompare
    /\ UNCHANGED otherThanOptional

\* AssignStmt::codegen for `name = value`, name a variable of type T?
AssignOptional(name, value) ==
    /\ optionals[name] # Undeclared
    /\ value \in PlainValues(optionals[name].inner) \cup {NullLiteral}
    /\ optionals' = [optionals EXCEPT
           ![name] = CreateStore(InitValue(optionals[name].inner, value), @)]
    /\ optStored' = [optStored EXCEPT ![name] = value]
    /\ optLast' = NoCompare
    /\ UNCHANGED otherThanOptional

\* BinaryExpr::codegen for `name == null` and `name != null`
CompareNull(name, op, hasValue) ==
    /\ optionals[name] # Undeclared
    /\ hasValue \in HasValueRead(optionals[name])
    /\ LET cmp == (hasValue = FALSE)
       IN  optLast' = [op |-> op, name |-> name,
                       result |-> IF op = "!=" THEN ~cmp ELSE cmp]
    /\ UNCHANGED <<optionals, optStored>>
    /\ UNCHANGED otherThanOptional

NextOptional ==
    \/ \E name \in VarNames, inner \in OptionalInners,
          init \in PlainValues("Bool") \cup PlainValues("Int") \cup {NullLiteral} :
            VarDeclOptional(name, inner, init)
    \/ \E name \in VarNames,
          value \in PlainValues("Bool") \cup PlainValues("Int") \cup {NullLiteral} :
            AssignOptional(name, value)
    \/ \E name \in VarNames, op \in {"==", "!="}, hasValue \in BOOLEAN :
            CompareNull(name, op, hasValue)

\* ====================================================== class declarations
\* Parser.cpp parseClassOrObject / parseMethod, ImplicitConstructor.cpp,
\* ClassCodeGen.cpp ClassDecl::codegen, MethodDecl::codegen, NewExpr::codegen,
\* Type.cpp getMangledName.  A name is the sequence of its characters.
ClassK == <<"K">>
ClassA == <<"A">>
ClassA_i == <<"A", "_", "i">>
constructor == <<"c", "o", "n", "s", "t", "r", "u", "c", "t", "o", "r">>

\* the types a field or a parameter is declared with
IntType == [kind |-> "Int", name |-> <<>>]
DoubleType == [kind |-> "Double", name |-> <<>>]
ClassType(name) == [kind |-> "Class", name |-> name]
FieldTypes == {IntType, DoubleType, ClassType(ClassA)}

\* the parameter-type lists of the constructors a class declares
CtorSignatures ==
    {<<>>, <<IntType>>, <<DoubleType>>,
     <<ClassType(ClassA), IntType>>, <<ClassType(ClassA_i)>>}

\* Type::getMangledName
getMangledName(type) ==
    CASE type.kind = "Int"    -> <<"i">>
      [] type.kind = "Double" -> <<"d">>
      [] type.kind = "Class"  -> <<"c">> \o type.name

\* Type::equals
equals(t, u) == t.kind = u.kind /\ t.name = u.name

\* the loop joining the parameter tags with "_", at both sites
RECURSIVE MangledParams(_, _)
MangledParams(params, i) ==
    IF i > Len(params) THEN <<>>
    ELSE (IF i > 1 THEN <<"_">> ELSE <<>>)
         \o getMangledName(params[i].type) \o MangledParams(params, i + 1)

\* the symbol of a method without its parameter types
MangledNameWithoutParams(className, method) == className \o <<"_">> \o method.name

\* MethodDecl::codegen: the symbol the method is defined under
MethodMangledName(className, method) ==
    IF method.isConstructor /\ method.params # <<>>
    THEN className \o <<"_">> \o method.name \o <<"_">> \o MangledParams(method.params, 1)
    ELSE className \o <<"_">> \o method.name

\* NewExpr::codegen: the symbol looked up for the constructor findMethod returned
NewExprMangledName(className, ctor) ==
    IF ctor.params # <<>>
    THEN className \o <<"_">> \o constructor \o <<"_">> \o MangledParams(ctor.params, 1)
    ELSE className \o <<"_">> \o constructor

\* names of fields and parameters: where they are declared and at which position
Name(place, i) == [place |-> place, i |-> i]
Parameter(name, type) == [name |-> name, type |-> type]
FieldDecl(name, type) == [name |-> name, type |-> type]

\* the statement `this.field = param`
AssignField(field, param) == [field |-> field, value |-> param]

MethodDecl(params, body, origin) ==
    [name |-> constructor, params |-> params, body |-> body,
     isConstructor |-> TRUE, origin |-> origin]

\* the parameters and the body synthesized from a list of fields
ParamsOf(fields) == [i \in 1..Len(fields) |-> Parameter(fields[i].name, fields[i].type)]
AssignAll(fields) == [i \in 1..Len(fields) |-> AssignField(fields[i].name, fields[i].name)]

\* ClassDecl::generateImplicitConstructor
generateImplicitConstructor(decl) ==
    IF \E i \in DOMAIN decl.methods : decl.methods[i].isConstructor
    THEN decl
    ELSE [decl EXCEPT !.methods =
              Append(@, MethodDecl(ParamsOf(decl.fields), AssignAll(decl.fields), "implicit"))]

\* ClassDecl::findMethod(methodName, paramTypes): the first method that matches
Matches(method, methodName, paramTypes) ==
    /\ method.name = methodName
    /\ Len(method.params) = Len(paramTypes)
    /\ \A i \in 1..Len(paramTypes) : equals(method.params[i].type, paramTypes[i])

findMethod(decl, methodName, paramTypes) ==
    LET hits == {i \in DOMAIN decl.methods : Matches(decl.methods[i], methodName, paramTypes)}
    IN  IF hits = {} THEN 0 ELSE CHOOSE i \in hits : \A j \in hits : i <= j

\* ctx.getModule().getFunction(name): the method whose body the function has, or 0
getFunction(fs, name) ==
    IF \E f \in fs : f.name = name
    THEN (CHOOSE f \in fs : f.name = name).method
    ELSE 0

NoNew == [op |-> "none"]
ExplicitCount(decl) ==
    Cardinality({i \in DOMAIN decl.methods : decl.methods[i].origin = "explicit"})
BodyFieldCount(decl) ==
    Cardinality({i \in DOMAIN decl.fields : decl.fields[i].name.place = "body"})

IdleClasses ==
    /\ clPc = "header"
    /\ classDecl = [name |-> ClassK, fields |-> <<>>, methods |-> <<>>]
    /\ llvmFunctions = {}
    /\ methodIx = 1
    /\ newLast = NoNew

\* parseClassOrObject up to the `{`: the primary constructor parameters become
\* fields, and a constructor assigning them if there is at least one
ParsePrimary(signature) ==
    /\ clPc = "header"
    /\ clPc' = "body"
    /\ LET fields == [i \in 1..Len(signature) |-> FieldDecl(Name("primary", i), signature[i])]
       IN  classDecl' = [classDecl EXCEPT
               !.fields = fields,
               !.methods = IF signature = <<>> THEN <<>>
                           ELSE <<MethodDecl(ParamsOf(fields), AssignAll(fields), "primary")>>]
    /\ UNCHANGED <<llvmFunctions, methodIx, newLast>>
    /\ UNCHANGED otherThanClasses

\* a `let` / `var` member of the class body: parseField
ParseField(type) ==
    /\ clPc = "body"
    /\ BodyFieldCount(classDecl) < MaxFields
    /\ classDecl' = [classDecl EXCEPT !.fields =
           Append(@, FieldDecl(Name("body", BodyFieldCount(classDecl) + 1), type))]
    /\ UNCHANGED <<clPc, llvmFunctions, methodIx, newLast>>
    /\ UNCHANGED otherThanClasses

\* a `constructor(...) { ... }` member of the class body: parseMethod
ParseConstructor(signature) ==
    /\ clPc = "body"
    /\ ExplicitCount(classDecl) < MaxCtors
    /\ LET params == [i \in 1..Len(signature) |->
                          Parameter(Name("parameter", i), signature[i])]
       IN  classDecl' = [classDecl EXCEPT !.methods =
               Append(@, MethodDecl(params, <<>>, "explicit"))]
    /\ UNCHANGED <<clPc, llvmFunctions, methodIx, newLast>>
    /\ UNCHANGED otherThanClasses

\* the `}`: the ClassDecl is created and generateImplicitConstructor is called
ParseClassEnd ==
    /\ clPc = "body"
    /\ clPc' = "methods"
    /\ classDecl' = generateImplicitConstructor(classDecl)
    /\ UNCHANGED <<llvmFunctions, methodIx, newLast>>
    /\ UNCHANGED otherThanClasses

\* one method.codegen(name) of ClassDecl::codegenMethods: an existing function of
\* the same symbol is returned as it is, otherwise the function is created
MethodDeclCodegen ==
    /\ clPc = "methods"
    /\ methodIx <= Len(classDecl.methods)
    /\ LET mangledName == MethodMangledName(classDecl.name, classDecl.methods[methodIx])
       IN  llvmFunctions' =
               IF getFunction(llvmFunctions, mangledName) # 0 THEN llvmFunctions
               ELSE llvmFunctions \cup {[name |-> mangledName, method |-> methodIx]}
    /\ methodIx' = methodIx + 1
    /\ UNCHANGED <<clPc, classDecl, newLast>>
    /\ UNCHANGED otherThanClasses

\* NewExpr::codegen for `new K(args)`: findMethod, the symbol, getFunction; with no
\* constructor or no function the object is returned without a call.  The only
\* nullptr of this part is that of an argument that fails to generate; the arguments
\* modelled generate.  returned: the expression yields the malloc'ed object;
\* diagnostic: logError was called; called: the constructor call was emitted
NewExprCodegen(argTypes) ==
    /\ clPc = "methods"
    /\ LET ctor == findMethod(classDecl, constructor, argTypes)
           mangledName == IF ctor = 0 THEN <<>>
                          ELSE NewExprMangledName(classDecl.name, classDecl.methods[ctor])
       IN  newLast' = [op |-> "NewExpr", argTypes |-> argTypes, ctor |-> ctor,
                       mangledName |-> mangledName,
                       ctorFunc |-> getFunction(llvmFunctions, mangledName),
                       returned |-> TRUE, diagnostic |-> FALSE,
                       called |-> (ctor # 0 /\ getFunction(llvmFunctions, mangledName) # 0)]
    /\ UNCHANGED <<clPc, classDecl, llvmFunctions, methodIx>>
    /\ UNCHANGED otherThanClasses

NextClasses ==
    \/ \E signature \in CtorSignatures : ParsePrimary(signature)
    \/ \E type \in FieldTypes : ParseField(type)
    \/ \E signature \in CtorSignatures : ParseConstructor(signature)
    \/ ParseClassEnd
    \/ MethodDeclCodegen
    \/ \E argTypes \in CtorSignatures : NewExprCodegen(argTypes)

\* ======================================================= return coercion
\* StmtCodeGen.cpp ReturnStmt::codegen, the conversion of the returned value to the
\* function's return type.  A value is [ty, n]: n is the integer of an i64, the bit
\* of an i1, and twice the number of a double (doubles are counted in halves).
I64(n) == [ty |-> "i64", n |-> n]
I1(n) == [ty |-> "i1", n |-> n]
DoubleHalves(h) == [ty |-> "double", n |-> h]

ReturnValues ==
    {I64(n) : n \in -MaxRetInt .. MaxRetInt}
        \cup {I1(0), I1(1)}
        \cup {DoubleHalves(h) : h \in -2 * MaxRetInt .. 2 * MaxRetInt}
ReturnTypes == {"i64", "double", "i1", "void"}

isIntegerTy(ty) == ty \in {"i1", "i64"}

\* the integer an iN holds when read as signed / as unsigned
SignedValue(val) == IF val.ty = "i1" THEN -val.n ELSE val.n
UnsignedValue(val) == val.n

\* rounding toward zero
Truncated(h) == IF h >= 0 THEN h \div 2 ELSE -((-h) \div 2)

\* the LLVM conversions; each gives the set of values the instruction may produce
CreateUIToFP(val) == {DoubleHalves(2 * UnsignedValue(val))}
CreateSIToFP(val) == {DoubleHalves(2 * SignedValue(val))}
CreateFPToSI(val, ty) ==
    IF ty = "i64" THEN {I64(Truncated(val.n))}
    ELSE IF Truncated(val.n) \in {-1, 0} THEN {I1(-Truncated(val.n))}
    ELSE {I1(0), I1(1)}   \* the number does not fit an i1: poison
CreateFCmpUNE(val) == {I1(IF val.n # 0 THEN 1 ELSE 0)}
CreateICmpNE(val) == {I1(IF val.n # 0 THEN 1 ELSE 0)}
CreateZExt(val) == {I64(UnsignedValue(val))}

\* the if / else-if chain of lines 49-71, in its order
ReturnConversion(ret_val, expected_ret_type) ==
    LET actual_ret_type == ret_val.ty
    IN  IF expected_ret_type = actual_ret_type THEN {ret_val}
        ELSE IF isIntegerTy(actual_ret_type) /\ expected_ret_type = "double"
        THEN CreateSIToFP(ret_val)
        ELSE IF actual_ret_type = "double" /\ isIntegerTy(expected_ret_type)
        THEN CreateFPToSI(ret_val, expected_ret_type)
        ELSE IF actual_ret_type = "double" /\ expected_ret_type = "i1"
        THEN CreateFCmpUNE(ret_val)
        ELSE IF isIntegerTy(actual_ret_type) /\ expected_ret_type = "i1"
                /\ actual_ret_type # "i1"
        THEN CreateICmpNE(ret_val)
        ELSE IF actual_ret_type = "i1" /\ expected_ret_type = "double"
        THEN CreateUIToFP(ret_val)
        ELSE IF actual_ret_type = "i1" /\ isIntegerTy(expected_ret_type)
        THEN CreateZExt(ret_val)
        ELSE {ret_val}

NoReturn == [op |-> "none"]

IdleReturn ==
    /\ retFn = "void"
    /\ retLast = NoReturn

\* code generation enters a function of the given return type
ReturnFunction(retTy) ==
    /\ retFn' = retTy
    /\ UNCHANGED retLast
    /\ UNCHANGED otherThanReturn

\* ReturnStmt::codegen for `return value`
ReturnWithValue(ret_val, returned) ==
    /\ IF retFn = "void"
       THEN /\ returned = ret_val
            /\ retLast' = [op |-> "ReturnStmt", ok |-> FALSE, value |-> ret_val,
                           expected |-> retFn, returned |-> returned]
       ELSE /\ returned \in ReturnConversion(ret_val, retFn)
            /\ retLast' = [op |-> "ReturnStmt", ok |-> TRUE, value |-> ret_val,
                           expected |-> retFn, returned |-> returned]
    /\ UNCHANGED retFn
    /\ UNCHANGED otherThanReturn

NextReturn ==
    \/ \E retTy \in ReturnTypes : ReturnFunction(retTy)
    \/ \E ret_val \in ReturnValues, returned \in ReturnValues :
           ReturnWithValue(ret_val, returned)

\* ============================================================== JIT binding
\* CodeGen.cpp initializeJIT / runMain, and the places of the code generator
\* that declare a runtime function in the module and call it.

\* the names initializeJIT enters into runtime_symbols
RuntimeSymbolMap ==
    {"aurora_array_create", "aurora_array_free", "aurora_array_length",
     "aurora_array_get_ptr", "aurora_array_set", "aurora_array_bounds_check",
     "aurora_object_create", "aurora_object_free",
     "aurora_string_create", "aurora_string_free", "aurora_string_length",
     "aurora_assert", "aurora_panic"}

\* ArrayLiteralExpr::codegen declares and calls these three together
ArrayLiteralCalls == {"aurora_array_create", "aurora_array_set", "aurora_array_length"}

\* the return types a main function can have: i64, double, void, or another one
MainTypes == {"i64", "double", "void", "ptr"}

IdleJIT ==
    /\ jitPc = "codegen"
    /\ moduleDecls = {}
    /\ mainFunction = "none"
    /\ main_return_type_ = "Unknown"
    /\ jit_ = FALSE
    /\ runtime_symbols = {}
    /\ mainLookup = "none"

\* an array literal is generated
ArrayLiteralCodegen ==
    /\ jitPc = "codegen"
    /\ moduleDecls' = moduleDecls \cup ArrayLiteralCalls
    /\ UNCHANGED <<jitPc, mainFunction, main_return_type_, jit_, runtime_symbols, mainLookup>>
    /\ UNCHANGED otherThanJIT

\* insertRetain on a pointer value: getFunction or Function::Create, then CreateCall
InsertRetainCall ==
    /\ jitPc = "codegen"
    /\ moduleDecls' = moduleDecls \cup {"aurora_retain"}
    /\ UNCHANGED <<jitPc, mainFunction, main_return_type_, jit_, runtime_symbols, mainLookup>>
    /\ UNCHANGED otherThanJIT

\* insertRelease on a pointer alloca: getFunction or Function::Create, then CreateCall
InsertReleaseCall ==
    /\ jitPc = "codegen"
    /\ moduleDecls' = moduleDecls \cup {"aurora_release"}
    /\ UNCHANGED <<jitPc, mainFunction, main_return_type_, jit_, runtime_symbols, mainLookup>>
    /\ UNCHANGED otherThanJIT

\* code generation ends; the module defines a main of some return type, or none
CodegenDone(mainTy) ==
    /\ jitPc = "codegen"
    /\ jitPc' = "initializeJIT"
    /\ mainFunction' = mainTy
    /\ UNCHANGED <<moduleDecls, main_return_type_, jit_, runtime_symbols, mainLookup>>
    /\ UNCHANGED otherThanJIT

\* initializeJIT(created): the return type of main is saved; LLJITBuilder().create()
\* succeeds or not, and after a failure nothing is defined
initializeJIT(created) ==
    /\ jitPc = "initializeJIT"
    /\ main_return_type_' = CASE mainFunction = "i64" -> "Int"
                               [] mainFunction = "double" -> "Double"
                               [] mainFunction = "void" -> "Void"
                               [] OTHER -> main_return_type_
    /\ jit_' = created
    /\ runtime_symbols' = (IF created THEN RuntimeSymbolMap ELSE {})
    /\ jitPc' = "runMain"
    /\ UNCHANGED <<moduleDecls, mainFunction, mainLookup>>
    /\ UNCHANGED otherThanJIT

\* the symbols of the module that the main JITDylib does not define
Unbound == moduleDecls \ runtime_symbols

\* runMain(processResolves): without a JIT it returns -1; jit_->lookup("main")
\* materialises the module, which needs every external symbol the module calls:
\* one not defined in the JITDylib is found only if the JIT also searches the
\* process and the executable exports it
runMain(processResolves) ==
    /\ jitPc = "runMain"
    /\ jitPc' = "exit"
    /\ IF ~jit_
       THEN UNCHANGED <<jit_, mainLookup>>
       ELSE IF mainFunction = "none" \/ (Unbound # {} /\ ~processResolves)
            THEN mainLookup' = "failed" /\ UNCHANGED jit_
            ELSE /\ mainLookup' = "found"
                 /\ jit_' = (main_return_type_ = "Unknown")
    /\ UNCHANGED <<moduleDecls, mainFunction, main_return_type_, runtime_symbols>>
    /\ UNCHANGED otherThanJIT

NextJIT ==
    \/ ArrayLiteralCodegen
    \/ InsertRetainCall
    \/ InsertReleaseCall
    \/ \E mainTy \in MainTypes \cup {"none"} : CodegenDone(mainTy)
    \/ \E created \in BOOLEAN : initializeJIT(created)
    \/ \E processResolves \in BOOLEAN : runMain(processResolves)

\* ========================================================= parsing of calls
\* Parser.cpp parseProgram, parseClassOrObject, parseType, parsePrimary (this),
\* parseCall; Type.cpp TypeRegistry::getClassType / hasClassType.

CalleeNames == {"P", "Unknown"}

\* a class declaration; a function with a parameter annotated with the type name;
\* a function whose body holds the call name(); a method whose body uses `this`
SourceItems ==
    [kind : {"class", "annotation", "call"}, name : CalleeNames]
        \cup {[kind |-> "this", name |-> "Unknown"]}

Programs == UNION {[1 .. n -> SourceItems] : n \in 1 .. MaxItems}

\* getClassType(types, name): the type is created on first use and kept
getClassType(types, name) == types \cup {name}

hasClassType(types, name) == name \in types

IdleParser ==
    /\ program = <<>>
    /\ parsePos = 1
    /\ classTypes = {}
    /\ parsedCalls = {}

InitParser ==
    /\ program \in Programs
    /\ parsePos = 1
    /\ classTypes = {}
    /\ parsedCalls = {}

Parsing(kind) == parsePos <= Len(program) /\ program[parsePos].kind = kind

\* parseClassOrObject registers the class type right after the class name
ParseClass ==
    /\ Parsing("class")
    /\ classTypes' = getClassType(classTypes, program[parsePos].name)
    /\ parsePos' = parsePos + 1
    /\ UNCHANGED <<program, parsedCalls>>
    /\ UNCHANGED otherThanParser

\* parseType on an identifier: "Try class type" through getClassType
ParseTypeAnnotation ==
    /\ Parsing("annotation")
    /\ classTypes' = getClassType(classTypes, program[parsePos].name)
    /\ parsePos' = parsePos + 1
    /\ UNCHANGED <<program, parsedCalls>>
    /\ UNCHANGED otherThanParser

\* parsePrimary on `this`: ThisExpr(registry.getClassType("Unknown"))
ParseThis ==
    /\ Parsing("this")
    /\ classTypes' = getClassType(classTypes, "Unknown")
    /\ parsePos' = parsePos + 1
    /\ UNCHANGED <<program, parsedCalls>>
    /\ UNCHANGED otherThanParser

\* parseCall(callee): a NewExpr if the registry has the class type, else a CallExpr
parseCall(callee) ==
    IF hasClassType(classTypes, callee) THEN "NewExpr" ELSE "CallExpr"

ParseCall ==
    /\ Parsing("call")
    /\ parsedCalls' = parsedCalls \cup
            {[at |-> parsePos, callee |-> program[parsePos].name,
              node |-> parseCall(program[parsePos].name)]}
    /\ parsePos' = parsePos + 1
    /\ UNCHANGED <<program, classTypes>>
    /\ UNCHANGED otherThanParser

NextParser ==
    \/ ParseClass
    \/ ParseTypeAnnotation
    \/ ParseThis
    \/ ParseCall

\* ================================================= assignments at run time
\* The code AssignStmt::codegen and VarDeclStmt::codegen emit for a variable of
\* pointer type, executed against the runtime heap.  The values are pointers to
\* objects that start with an AuroraRefCountHeader.

\* the expressions on the right-hand side: a variable, or a call that returns a
\* fresh runtime object
RunExprs == [kind : {"VariableExpr"}, name : VarNames] \cup {[kind |-> "CallExpr", name |-> "-"]}

\* the runtime calls of an instruction sequence, in their order
ArcCalls(is) ==
    LET calls == SelectSeq(is, LAMBDA i : i.op = "call")
    IN  [j \in 1 .. Len(calls) |-> calls[j].a]

\* one runtime call of the assignment sequence: release takes the pointer loaded
\* from the alloca, retain the new value.  A call on an object that was already
\* freed reads and writes freed memory: the count it leaves is any number
RunCall(h, f, old, new, garbage) ==
    LET ptr == IF f = "aurora_release" THEN old ELSE new
    IN  IF ptr # NULL /\ h[ptr].state = "freed"
        THEN [h EXCEPT ![ptr].ref_count = garbage]
        ELSE IF f = "aurora_release" THEN aurora_release(h, ptr)
        ELSE aurora_retain(h, ptr).heap

RECURSIVE RunCalls(_, _, _, _, _)
RunCalls(h, calls, old, new, garbage) ==
    IF calls = <<>> THEN h
    ELSE RunCalls(RunCall(h, Head(calls), old, new, garbage), Tail(calls), old, new, garbage)

IdleAssign ==
    /\ slots = [n \in VarNames |-> NULL]
    /\ asgLast = [op |-> "none", name |-> "x", freedUse |-> FALSE]

\* the pointer an expression evaluates to: a load of the variable's alloca, or the
\* object o a call has just created
RunValue(e, o) == IF e.kind = "VariableExpr" THEN slots[e.name] ELSE o

\* the heap once the expression is evaluated
RunHeap(e, o, type) ==
    IF e.kind = "CallExpr" THEN [heap EXCEPT ![o] = Created(type)] ELSE heap

RunGuard(e, o) ==
    /\ ~asgLast.freedUse
    /\ IF e.kind = "CallExpr" THEN heap[o].state = "unallocated" ELSE o = 1

\* `var name = e` running: VarDeclStmt::codegen stores the value, without a retain
RunVarDecl(name, e, o, type) ==
    /\ RunGuard(e, o)
    /\ slots[name] = NULL
    /\ heap' = RunHeap(e, o, type)
    /\ slots' = [slots EXCEPT ![name] = RunValue(e, o)]
    /\ asgLast' = [op |-> "VarDeclStmt", name |-> name, freedUse |-> FALSE]
    /\ rtLast' = RtStep("VarDeclStmt", RunValue(e, o), NULL)
    /\ UNCHANGED otherThanAssign

\* `name = e` running: the calls of AssignVarCode in their order, then the store
RunAssign(name, e, o, type, garbage) ==
    /\ RunGuard(e, o)
    /\ LET new == RunValue(e, o)
           calls == ArcCalls(AssignVarCode(Alloca("ptr", "AuroraString"),
                                           Val("ptr", "AuroraString")))
           after == RunCalls(RunHeap(e, o, type), calls, slots[name], new, garbage)
       IN  /\ aurora_get_ref_count(heap, new) < MaxRefs
           /\ heap' = after
           /\ slots' = [slots EXCEPT ![name] = new]
           /\ asgLast' = [op |-> "AssignStmt", name |-> name,
                          freedUse |-> \/ new # NULL /\ after[new].state = "freed"
                                       \/ slots[name] # NULL /\ heap[slots[name]].state = "freed"]
           /\ rtLast' = RtStep("AssignStmt", new, NULL)
    /\ UNCHANGED otherThanAssign

NextAssign ==
    \/ \E name \in VarNames, e \in RunExprs, o \in Objects, type \in ObjectTypes :
            RunVarDecl(name, e, o, type)
    \/ \E name \in VarNames, e \in RunExprs, o \in Objects, type \in ObjectTypes,
          garbage \in 0 .. MaxRefs :
            RunAssign(name, e, o, type, garbage)

\* ================================================================== lexer
\* Lexer.cpp nextToken and the functions it calls.  The input is over a small
\* alphabet with one character of each class nextToken tells apart: a letter, a
\* digit, a blank, a one-character operator, the slash, the double quote, and a
\* character that is none of these and of no other token.  Without a newline in the
\* alphabet a // comment runs to the end of the input; /* comments, the
\* two-character operators and the escapes of a string have no character here.
Alphabet == {"a", "1", " ", "+", "/", "\"", "@"}

Sources == UNION {[1 .. n -> Alphabet] : n \in 0 .. MaxSource}

isAtEnd(src, p) == p > Len(src)
NUL == "NUL"
current(src, p) == IF isAtEnd(src, p) THEN NUL ELSE src[p]
peek(src, p) == IF p + 1 > Len(src) THEN NUL ELSE src[p + 1]
isDigit(c) == c = "1"
isAlpha(c) == c = "a"
isAlphaNumeric(c) == isAlpha(c) \/ isDigit(c)
isspace(c) == c = " "

\* the position after the longest run of characters of a class that starts at p
AdvanceWhile(src, p, class(_)) ==
    LET stops == {q \in p .. Len(src) + 1 : isAtEnd(src, q) \/ ~class(src[q])}
    IN  CHOOSE q \in stops : \A r \in stops : q <= r

skipWhitespace(src, p) == AdvanceWhile(src, p, isspace)

\* skipComment on //: up to the newline, here the end of the input
skipComment(src, p) == AdvanceWhile(src, p, LAMBDA c : c # "\n")

\* the loop at the head of nextToken
RECURSIVE SkipComments(_, _)
SkipComments(src, p) ==
    IF current(src, p) = "/" /\ peek(src, p) = "/"
    THEN SkipComments(src, skipWhitespace(src, skipComment(src, p)))
    ELSE p

Token(type, value, at, next) ==
    [type |-> type, value |-> value, at |-> at, next |-> next, reported |-> FALSE]

readIdentifierOrKeyword(src, p) ==
    LET q == AdvanceWhile(src, p, isAlphaNumeric)
    IN  Token("Identifier", SubSeq(src, p, q - 1), p, q)

readNumber(src, p) ==
    LET q == AdvanceWhile(src, p, isDigit)
    IN  Token("IntLiteral", SubSeq(src, p, q - 1), p, q)

\* readString: up to the closing quote; at the end of the input the diagnostic
\* E1001 is reported and an Eof token returned
readString(src, p) ==
    LET q == AdvanceWhile(src, p + 1, LAMBDA c : c # "\"")
    IN  IF isAtEnd(src, q)
        THEN [type |-> "Eof", value |-> <<>>, at |-> p, next |-> q, reported |-> TRUE]
        ELSE Token("StringLiteral", SubSeq(src, p + 1, q - 1), p, q + 1)

\* nextToken from position p0
nextToken(src, p0) ==
    LET p == SkipComments(src, skipWhitespace(src, p0))
        c == current(src, p)
    IN  IF isAtEnd(src, p) THEN Token("Eof", <<>>, p, p)
        ELSE IF isAlpha(c) THEN readIdentifierOrKeyword(src, p)
        ELSE IF isDigit(c) THEN readNumber(src, p)
        ELSE IF c = "\"" THEN readString(src, p)
        ELSE CASE c = "+" -> Token("Plus", <<c>>, p, p + 1)
               [] c = "/" -> Token("Slash", <<c>>, p, p + 1)
               [] OTHER   -> Token("Eof", <<c>>, p, p + 1)

NoToken == [type |-> "none", value |-> <<>>, at |-> 0, next |-> 1, reported |-> FALSE]

IdleLexer ==
    /\ source = <<>>
    /\ pos = 1
    /\ lastToken = NoToken

InitLexer ==
    /\ source \in Sources
    /\ pos = 1
    /\ lastToken = NoToken

\* the parser asks for the next token; parseProgram and parseBlock stop at Eof
NextToken ==
    /\ lastToken.type # "Eof"
    /\ lastToken' = nextToken(source, pos)
    /\ pos' = nextToken(source, pos).next
    /\ UNCHANGED source
    /\ UNCHANGED otherThanLexer

NextLexer == NextToken

\* ======================================================== loops and jumps
\* Bodies made of loop statements, break and continue only, one statement longer
\* than the bodies of the other specifications: a jump after a nested loop
\* statement inside a loop body is the third statement of its function.
IdleLoops == stmtBudget = MaxStmts

InitLoops == stmtBudget = MaxLoopStmts

NextLoops ==
    \/ \E kind \in {"function", "method"}, retTy \in {"void", "i64"} : FunctionBegin(kind, retTy)
    \/ FunctionEnd
    \/ \E op \in {"BreakStmt", "ContinueStmt"} : JumpStmt(op)
    \/ \E condTy \in {"double", "i1"} : WhileStmtBegin(condTy)
    \/ WhileStmtCondFails
    \/ WhileStmtEnd
    \/ ForStmtBegin
    \/ ForStmtBoundFails
    \/ ForStmtEnd
    \/ LoopStmtBegin
    \/ LoopStmtEnd

\* ===================================================== fields of `this`
\* ClassCodeGen.cpp MemberAccessExpr::codegen and assignToMemberField, object
\* `this`: the class is looked up under the part of the current function's name
\* before its first underscore.

\* the characters of a class name: a letter, the underscore, a digit; an identifier
\* starts with a letter or an underscore (Lexer::isAlpha)
NameChars == {"A", "_", "1"}
ClassNames ==
    {n \in UNION {[1 .. k -> NameChars] : k \in 1 .. MaxNameLen} : n[1] \in {"A", "_"}}

\* the methods generated: a method m(), and a constructor of each signature
ThisMethods ==
    {[name |-> <<"m">>, params |-> <<>>, isConstructor |-> FALSE]}
        \cup {[name |-> constructor,
               params |-> [i \in 1 .. Len(sig) |-> Parameter(Name("param", i), sig[i])],
               isConstructor |-> TRUE] : sig \in CtorSignatures}

\* std::string::find(c): the first position of c, counted from 0; npos is -1 here
npos == -1
find(str, c) ==
    IF \E i \in DOMAIN str : str[i] = c
    THEN (CHOOSE i \in DOMAIN str : str[i] = c /\ \A j \in DOMAIN str : str[j] = c => i <= j) - 1
    ELSE npos

\* std::string::substr(0, n)
substr(str, n) == SubSeq(str, 1, n)

NoMember == [op |-> "none", className |-> <<>>, ok |-> TRUE]

IdleMember ==
    /\ thisClass = ClassK
    /\ thisMethod = [name |-> <<"m">>, params |-> <<>>, isConstructor |-> FALSE]
    /\ declared = {ClassK}
    /\ memberLast = NoMember

\* a class of any name, declared alone or next to a class A
InitMember ==
    /\ thisClass \in ClassNames
    /\ thisMethod \in ThisMethods
    /\ declared \in {{thisClass}, {thisClass, ClassA}}
    /\ memberLast = NoMember

\* `this.f` read (MemberAccessExpr::codegen) or assigned (assignToMemberField) in
\* the body of thisMethod: the class name is cut from the function's name, and the
\* field is resolved against the declaration registered under that name; without
\* an underscore or without a declaration logError
ThisMember(op) ==
    /\ LET funcName == MethodMangledName(thisClass, thisMethod)
           underscorePos == find(funcName, "_")
           className == substr(funcName, underscorePos)
       IN  memberLast' =
               IF underscorePos = npos \/ className \notin declared
               THEN [op |-> op, className |-> className, ok |-> FALSE]
               ELSE [op |-> op, className |-> className, ok |-> TRUE]
    /\ UNCHANGED <<thisClass, thisMethod, declared>>
    /\ UNCHANGED otherThanMember

NextMember == \E op \in {"MemberAccessExpr", "assignToMemberField"} : ThisMember(op)

\* ------------------------------------------------------------------ Next
NextCodegen ==
    \/ \E kind \in {"function", "method"}, retTy \in {"void", "i64"} : FunctionBegin(kind, retTy)
    \/ FunctionEnd
    \/ \E hasValue \in BOOLEAN, e \in Exprs : ReturnStmt(hasValue, e)
    \/ \E name \in VarNames, d \in Decls : VarDeclStmt(name, d.type, d.init)
    \/ \E name \in VarNames, e \in Exprs : AssignStmt(name, e)
    \/ \E op \in {"BreakStmt", "ContinueStmt"} : JumpStmt(op)
    \/ \E condTy \in {"double", "i1"} : WhileStmtBegin(condTy)
    \/ WhileStmtCondFails
    \/ WhileStmtEnd
    \/ ForStmtBegin
    \/ ForStmtBoundFails
    \/ ForStmtEnd
    \/ LoopStmtBegin
    \/ LoopStmtEnd
    \/ IfStmtBegin
    \/ IfStmtCondFails
    \/ IfStmtElse
    \/ IfStmtEnd

\* ------------------------------------------------------- specifications
\* code generation of the definitions of one compilation
Init == InitCodegen /\ IdleRuntime /\ IdleLoader /\ IdleDriver /\ IdleOptional /\ IdleClasses
    /\ IdleReturn
    /\ IdleJIT
    /\ IdleParser
    /\ IdleAssign
    /\ IdleLexer
    /\ IdleLoops
    /\ IdleMember

Next == NextCodegen

Spec == Init /\ [][Next]_vars

\* a program calling the runtime
InitOfRuntime == InitCodegen /\ IdleRuntime /\ IdleLoader /\ IdleDriver /\ IdleOptional /\ IdleClasses
    /\ IdleReturn
    /\ IdleJIT
    /\ IdleParser
    /\ IdleAssign
    /\ IdleLexer
    /\ IdleLoops
    /\ IdleMember

SpecRuntime == InitOfRuntime /\ [][NextRuntime]_vars

\* the loader over every set of module files
InitOfLoader == InitCodegen /\ IdleRuntime /\ InitLoader /\ IdleDriver /\ IdleOptional /\ IdleClasses
    /\ IdleReturn
    /\ IdleJIT
    /\ IdleParser
    /\ IdleAssign
    /\ IdleLexer
    /\ IdleLoops
    /\ IdleMember

SpecLoader == InitOfLoader /\ [][NextLoader]_vars

\* one run of the command-line driver
InitOfPipeline == InitCodegen /\ IdleRuntime /\ IdleLoader /\ InitDriver /\ IdleOptional /\ IdleClasses
    /\ IdleReturn
    /\ IdleJIT
    /\ IdleParser
    /\ IdleAssign
    /\ IdleLexer
    /\ IdleLoops
    /\ IdleMember

SpecPipeline == InitOfPipeline /\ [][NextDriver]_vars

\* a function body declaring, assigning and testing optional variables
InitOfOptional == InitCodegen /\ IdleRuntime /\ IdleLoader /\ IdleDriver /\ IdleOptional /\ IdleClasses
    /\ IdleReturn
    /\ IdleJIT
    /\ IdleParser
    /\ IdleAssign
    /\ IdleLexer
    /\ IdleLoops
    /\ IdleMember

SpecOptional == InitOfOptional /\ [][NextOptional]_vars

\* one class declaration, parsed and code-generated, and the `new` expressions on it
InitOfClasses ==
    InitCodegen /\ IdleRuntime /\ IdleLoader /\ IdleDriver /\ IdleOptional /\ IdleClasses
    /\ IdleReturn
    /\ IdleJIT
    /\ IdleParser
    /\ IdleAssign
    /\ IdleLexer
    /\ IdleLoops
    /\ IdleMember

SpecClasses == InitOfClasses /\ [][NextClasses]_vars

\* Return statements with a value, in functions of every return type
InitOfReturn ==
    InitCodegen /\ IdleRuntime /\ IdleLoader /\ IdleDriver /\ IdleOptional /\ IdleClasses
    /\ IdleReturn
    /\ IdleJIT
    /\ IdleParser
    /\ IdleAssign
    /\ IdleLexer
    /\ IdleLoops
    /\ IdleMember

SpecReturn == InitOfReturn /\ [][NextReturn]_vars

InitOfJIT ==
    InitCodegen /\ IdleRuntime /\ IdleLoader /\ IdleDriver /\ IdleOptional /\ IdleClasses
    /\ IdleReturn
    /\ IdleJIT
    /\ IdleParser
    /\ IdleAssign
    /\ IdleLexer
    /\ IdleLoops
    /\ IdleMember

SpecJIT == InitOfJIT /\ [][NextJIT]_vars

InitOfParser ==
    InitCodegen /\ IdleRuntime /\ IdleLoader /\ IdleDriver /\ IdleOptional /\ IdleClasses
    /\ IdleReturn
    /\ IdleJIT
    /\ InitParser
    /\ IdleAssign
    /\ IdleLexer
    /\ IdleLoops
    /\ IdleMember

SpecParser == InitOfParser /\ [][NextParser]_vars

InitOfAssign ==
    InitCodegen /\ IdleRuntime /\ IdleLoader /\ IdleDriver /\ IdleOptional /\ IdleClasses
    /\ IdleReturn
    /\ IdleJIT
    /\ IdleParser
    /\ IdleAssign
    /\ IdleLexer
    /\ IdleLoops
    /\ IdleMember

SpecAssign == InitOfAssign /\ [][NextAssign]_vars

InitOfLexer ==
    InitCodegen /\ IdleRuntime /\ IdleLoader /\ IdleDriver /\ IdleOptional /\ IdleClasses
    /\ IdleReturn
    /\ IdleJIT
    /\ IdleParser
    /\ IdleAssign
    /\ InitLexer
    /\ IdleLoops
    /\ IdleMember

SpecLexer == InitOfLexer /\ [][NextLexer]_vars

InitOfLoops ==
    InitCodegen /\ IdleRuntime /\ IdleLoader /\ IdleDriver /\ IdleOptional /\ IdleClasses
    /\ IdleReturn
    /\ IdleJIT
    /\ IdleParser
    /\ IdleAssign
    /\ IdleLexer
    /\ InitLoops
    /\ IdleMember

SpecLoops == InitOfLoops /\ [][NextLoops]_vars

InitOfMember ==
    InitCodegen /\ IdleRuntime /\ IdleLoader /\ IdleDriver /\ IdleOptional /\ IdleClasses
    /\ IdleReturn
    /\ IdleJIT
    /\ IdleParser
    /\ IdleAssign
    /\ IdleLexer
    /\ IdleLoops
    /\ InitMember

SpecMember == InitOfMember /\ [][NextMember]_vars

\* ================================================================ properties
IsCallTo(i, f) == i.op = "call" /\ i.a = f
IsArc(i) == IsCallTo(i, "aurora_retain") \/ IsCallTo(i, "aurora_release")
CallsTo(is, f) == Len(SelectSeq(is, LAMBDA i : IsCallTo(i, f)))
ReturnDone == last.op = "ReturnStmt" /\ last.ok
AssignDone == last.op = "AssignStmt" /\ last.ok
JumpOutsideLoop == last.op \in {"BreakStmt", "ContinueStmt"} /\ ~last.inLoop

\* C1: a Return statement generated while the current scope tracks K variables emits
\* exactly K calls to aurora_release, each with its load, directly before the ret.
C1_ReturnReleasesTracked ==
    ReturnDone =>
        LET n == Len(emitted)
            K == last.tracked
        IN  /\ CallsTo(emitted, "aurora_release") = K
            /\ n >= 2 * K + 1
            /\ emitted[n].op = "ret"
            /\ \A j \in 1..K : IsCallTo(emitted[n - 2 * j + 1], "aurora_release")

\* C2: every object that generated code hands to aurora_retain or aurora_release
\* starts with the header {ref_count: i64, type_tag: i32}.
C2_ArcOperandsHaveHeader ==
    \A j \in 1..Len(emitted) : IsArc(emitted[j]) => HasRefCountHeader(emitted[j].v.obj)

\* C5: once code generation of a while, for or loop statement has returned, with
\* success or with failure, the loop-context stack is what it was before the statement.
C5_LoopStackRestored ==
    last.op \in LoopKinds => loop_stack_ = last.before

\* C6: a break or continue that is not lexically inside a loop of the function being
\* generated emits no branch: it reports one diagnostic and fails.
C6_JumpOutsideLoopFails ==
    JumpOutsideLoop =>
        /\ ~last.ok
        /\ emitted = <<>>
        /\ error_count_ = last.errBefore + 1

\* C7: after the first error diagnostic of a compilation unit no further statement
\* is generated and no second error diagnostic is reported.
C7_FirstErrorAborts ==
    [][error_count_ >= 1 => (stmtCount' <= stmtCount /\ error_count_' = error_count_)]_cgVars

\* the tail of an assignment's instructions: release of the old value, retain of the
\* new one, store of the retained value
ReleaseRetainStore ==
    LET n == Len(emitted)
    IN  /\ n >= 4
        /\ emitted[n - 3].op = "load"
        /\ IsCallTo(emitted[n - 2], "aurora_release")
        /\ emitted[n - 2].v = emitted[n - 3].v
        /\ IsCallTo(emitted[n - 1], "aurora_retain")
        /\ emitted[n].op = "store"
        /\ emitted[n].v = emitted[n - 1].v
        /\ CallsTo(emitted, "aurora_release") = 1
        /\ CallsTo(emitted, "aurora_retain") = 1

RetainStore ==
    LET n == Len(emitted)
    IN  /\ n >= 2
        /\ IsCallTo(emitted[n - 1], "aurora_retain")
        /\ emitted[n].op = "store"
        /\ emitted[n].v = emitted[n - 1].v
        /\ CallsTo(emitted, "aurora_release") = 0
        /\ CallsTo(emitted, "aurora_retain") = 1

StoreOnly ==
    /\ emitted # <<>>
    /\ emitted[Len(emitted)].op = "store"
    /\ \A j \in 1..Len(emitted) : ~IsArc(emitted[j])

\* C10 as stated: an assignment of a pointer-typed value to a variable emits release
\* of the old value, retain of the new value, store, in this order; an assignment of
\* a non-pointer value emits only the store.
C10_AssignReleaseRetainStore ==
    AssignDone => IF last.valPtr THEN ReleaseRetainStore ELSE StoreOnly

\* C10 amended: the release of the old value is emitted exactly when the variable's
\* storage is pointer-typed; for a pointer-typed value in other storage the code is
\* retain then store; for a non-pointer value only the store is emitted.
C10_AssignOrder ==
    AssignDone =>
        IF last.valPtr
        THEN IF last.slotPtr THEN ReleaseRetainStore ELSE RetainStore
        ELSE StoreOnly

C10_Witness == AssignDone /\ last.valPtr /\ last.slotPtr /\ ReleaseRetainStore

\* C4: on an object created with ref_count 1 and not used after it is freed,
\* aurora_retain adds one to ref_count and returns its argument, aurora_release
\* subtracts one, the type-specific free runs exactly once, at the release that brings
\* ref_count to zero and never earlier, and both calls do nothing on a null pointer.
C4_RetainReleaseContract ==
    /\ rtLast.op = "aurora_retain" =>
          /\ rtLast.ret = rtLast.ptr
          /\ heap = IF rtLast.ptr = NULL THEN rtLast.before
                    ELSE [rtLast.before EXCEPT ![rtLast.ptr].ref_count = @ + 1]
    /\ rtLast.op = "aurora_release" =>
          IF rtLast.ptr = NULL THEN heap = rtLast.before
          ELSE LET old == rtLast.before[rtLast.ptr]
                   new == heap[rtLast.ptr]
               IN  /\ new.ref_count = old.ref_count - 1
                   /\ new.frees = old.frees + (IF new.ref_count = 0 THEN 1 ELSE 0)
                   /\ \A o \in Objects \ {rtLast.ptr} : heap[o] = rtLast.before[o]
    /\ \A o \in Objects :
          /\ heap[o].state = "live" => heap[o].ref_count >= 1 /\ heap[o].frees = 0
          /\ heap[o].state = "freed" =>
                /\ heap[o].ref_count = 0
                /\ heap[o].frees = 1
                /\ heap[o].freedBy = FreeFunction(heap[o].type)
                /\ heap[o].freedBy # "aurora_panic"

C4_Witness ==
    /\ rtLast.op = "aurora_release"
    /\ rtLast.ptr # NULL
    /\ rtLast.before[rtLast.ptr].ref_count = 1
    /\ heap[rtLast.ptr].state = "freed"
    /\ \E o \in Objects : heap[o].state = "live" /\ heap[o].ref_count = MaxRefs

\* C3: module loading terminates on cyclic imports: a top-level load makes finitely
\* many recursive loads, at most one for the request and one for each import
\* declaration of the module files, and returns instead of exhausting the process.
C3_CyclicLoadTerminates ==
    /\ ldResult # "crashed"
    /\ loadCalls <= 1 + ImportDeclCount

\* the code generator erases a method without reporting any diagnostic: the outcome
\* "erased" without diagnostic of the driver's CodegenMethod
MethodErasedSilently ==
    /\ last.op = "FunctionEnd" /\ ~last.ok
    /\ fn.kind = "method"
    /\ error_count_ = 0

\* C8: when an error diagnostic was reported or code generation of a function or a
\* method failed, the LLVM IR file is not written and the JIT is neither initialized
\* nor run.
C8_NoPartialArtifact ==
    (\/ hasErrors
     \/ "method generation failure" \in failures
     \/ "function generation failure" \in failures)
    => irFile = "none" /\ jit = "none"

\* C9: every failure path of the pipeline ends the process with a non-zero exit code.
C9_FailureExitsNonZero ==
    (plPc = "exit" /\ failures # {}) => exitCode # 0

\* C11: every method is code-generated after every class struct type is created:
\* no class of the program gets its struct type after a method body has started
\* code generation, whichever file, imported or main, declares the class.
C11_MethodsAfterAllStructs ==
    \A g \in codegenLog : structTypes \subseteq g.structs

\* the files named by a list of import declarations held by a file (NoFile for a
\* declaration that names no file), and by their imports in turn
ImportedBy(unit, imports) == {resolve(unit, imports[i]) : i \in DOMAIN imports}
ImportStep(S) == S \cup UNION {ImportedBy(f, files[f]) : f \in S \cap Modules}
ImportClosure(S) == ImportStep(ImportStep(ImportStep(S)))

\* C12: before any top-level class or function of a file is code-generated, the load
\* of every module file named by its import declarations, directly or through the
\* imports of those files, has returned true; a file with an import that failed to
\* load is never code-generated.
C12_ImportsLoadedFirst ==
    \A g \in codegenLog :
        ImportClosure(ImportedBy(g.unit, g.imports)) \subseteq g.loaded

\* C13: module loading is idempotent on the resolved file: whatever the import
\* requests, their importing files and the spellings of their paths, a module file
\* whose load has returned true is never parsed and code-generated again, and a
\* request is answered "already loaded" only when the load of the file it resolves
\* to has returned true.
C13_LoadIdempotentOnFile ==
    /\ \A g \in codegenLog : g.unit \notin g.loaded
    /\ lastSkip.taken => lastSkip.file \in lastSkip.loaded

\* C14: for a variable of type T?, `x == null` is true exactly when the value last
\* stored into x was null, and `x != null` is its negation, whether the stored value
\* was the null literal or a plain value of type T.
C14_NullComparison ==
    optLast.op # "none" =>
        optLast.result = ((optStored[optLast.name] = NullLiteral) = (optLast.op = "=="))

\* the constructors of the parsed class, and their parameter-type lists
Constructors == {i \in DOMAIN classDecl.methods : classDecl.methods[i].isConstructor}
ParamTypes(method) == [i \in 1..Len(method.params) |-> method.params[i].type]
AllGenerated == clPc = "methods" /\ methodIx > Len(classDecl.methods)

\* tag(T1)_..._tag(Tn)
RECURSIVE JoinTags(_)
JoinTags(types) ==
    IF Len(types) = 1 THEN getMangledName(types[1])
    ELSE getMangledName(types[1]) \o <<"_">> \o JoinTags(Tail(types))

\* C15: the symbol NewExpr looks up for the constructor it has chosen is the symbol
\* the constructor is defined under: <Class>_constructor for a constructor without
\* parameters, <Class>_constructor_<tag(T1)>_..._<tag(Tn)> for parameter types T1..Tn.
C15_ConstructorSymbolsAgree ==
    (newLast.op = "NewExpr" /\ newLast.ctor # 0) =>
        LET ctor == classDecl.methods[newLast.ctor]
        IN  /\ newLast.mangledName = MethodMangledName(classDecl.name, ctor)
            /\ newLast.mangledName =
                   classDecl.name \o <<"_">> \o constructor \o
                   (IF ctor.params = <<>> THEN <<>>
                    ELSE <<"_">> \o JoinTags(ParamTypes(ctor)))

\* `new K(a, n)` has found the two-parameter constructor and its function, after
\* `new K()` found none or another one
C15_Witness ==
    /\ newLast.op = "NewExpr"
    /\ newLast.ctor # 0
    /\ Len(newLast.argTypes) = 2
    /\ newLast.ctorFunc = newLast.ctor
    /\ Cardinality(Constructors) >= 2

\* C16: two constructors of one class whose parameter-type lists differ are defined
\* under different symbols.
C16_OverloadsHaveDistinctSymbols ==
    clPc = "methods" =>
        \A i \in Constructors, j \in Constructors :
            ParamTypes(classDecl.methods[i]) # ParamTypes(classDecl.methods[j]) =>
                MethodMangledName(classDecl.name, classDecl.methods[i])
                    # MethodMangledName(classDecl.name, classDecl.methods[j])

\* C17: a class declaring two constructors with identical parameter-type lists does
\* not compile with one body dropped: once its methods are generated, each of the two
\* constructors has its function in the module.
C17_DuplicateConstructorNotDropped ==
    AllGenerated =>
        \A i \in Constructors, j \in Constructors :
            (i < j /\ ParamTypes(classDecl.methods[i]) = ParamTypes(classDecl.methods[j])) =>
                \E f \in llvmFunctions : f.method = j

\* C18: a parsed class without an explicit `constructor` has a constructor with one
\* parameter per field, in declaration order and of the field's type, whose body
\* assigns each parameter to the field of the same name; also when the class has a
\* primary constructor and further fields in its body.
C18_ImplicitConstructorCoversFields ==
    (clPc = "methods" /\ ExplicitCount(classDecl) = 0) =>
        \E i \in Constructors :
            /\ classDecl.methods[i].params = ParamsOf(classDecl.fields)
            /\ classDecl.methods[i].body = AssignAll(classDecl.fields)

\* C19: the struct type used for the instances of a class that reaches code
\* generation has the class's fields: as many as declared, of the declared types, in
\* declaration order; also when a struct type of that name existed already.
C19_StructHasDeclaredFields ==
    \A g \in codegenLog : g.struct.fields = ClassStructFields(FieldsOf(g.unit))

\* the coercion table: what a returned value is as a value of the return type
Coerced(val, ty) ==
    CASE val.ty = ty                      -> val
      [] val.ty = "i64" /\ ty = "double"  -> DoubleHalves(2 * val.n)
      [] val.ty = "double" /\ ty = "i64"  -> I64(Truncated(val.n))
      [] val.ty = "i1" /\ ty = "i64"      -> I64(val.n)
      [] val.ty = "i1" /\ ty = "double"   -> DoubleHalves(2 * val.n)
      [] OTHER                            -> I1(IF val.n # 0 THEN 1 ELSE 0)

\* C20: a Return statement coerces its value to the function's return type by the full
\* table: int to double by signed conversion, double to int by truncation, bool to
\* int and to double with true becoming 1 and 1.0, int or double to bool by
\* comparison with zero; a value of the return type is returned unchanged.
C20_ReturnCoercionTable ==
    (retLast.op = "ReturnStmt" /\ retLast.ok) =>
        retLast.returned = Coerced(retLast.value, retLast.expected)

\* C21: once the JIT is initialised and main is about to be looked up, every runtime
\* symbol the generated module calls is among the absolute symbols defined in the JIT
C21_RuntimeSymbolsBound ==
    (jitPc \in {"runMain", "exit"} /\ jit_) => moduleDecls \subseteq runtime_symbols

\* the classes the program declares, wherever the declaration stands
DeclaredClasses ==
    {program[i].name : i \in {j \in 1 .. Len(program) : program[j].kind = "class"}}

\* C22: a parsed call Name(args) is a New expression exactly when Name is a class
\* declared in the program, whether declared before or after the call and whether
\* or not Name was mentioned in a type annotation
C22_NewExactlyForDeclaredClasses ==
    \A c \in parsedCalls : (c.node = "NewExpr") <=> (c.callee \in DeclaredClasses)

\* C23: no step of the generation of a function or method body emits an instruction
\* into the insert block once that block has a terminator, so a block never holds
\* an instruction after its terminator nor a second terminator
C23_NothingAfterTerminator ==
    [][(pc = "body" /\ emitted' # <<>>) => ~builder.hasTerm]_vars

\* C24: after the code of an assignment x = e to a pointer-typed variable has run,
\* the object now stored in x has not been freed and its ref_count is at least 1
C24_AssignedObjectAlive ==
    (asgLast.op = "AssignStmt" /\ slots[asgLast.name] # NULL) =>
        /\ heap[slots[asgLast.name]].state = "live"
        /\ heap[slots[asgLast.name]].ref_count >= 1

\* C25: when a file is code-generated, the class declarations of every module it
\* imports and that was loaded still exist, so the declaration back-pointer of their
\* ClassType, which NewExpr, MemberAccessExpr and MemberCallExpr dereference, is valid
C25_ImportedDeclsAlive ==
    \A g \in codegenLog : (ImportedBy(g.unit, g.imports) \cap g.loaded) \subseteq g.alive

\* C26: a `new` expression whose argument types equal the parameter types of no
\* constructor of the class reports a diagnostic and yields no object
C26_UnmatchedNewFails ==
    (newLast.op = "NewExpr"
        /\ \A i \in Constructors : ParamTypes(classDecl.methods[i]) # newLast.argTypes) =>
            (newLast.diagnostic /\ ~newLast.returned)

\* C27: nextToken returns a token of type Eof only at the end of the input, or after
\* it has reported an unterminated string literal
C27_EofOnlyAtEnd ==
    lastToken.type = "Eof" => (isAtEnd(source, lastToken.at) \/ lastToken.reported)

\* the innermost loop statement whose body is being generated, and the blocks a
\* break and a continue of its body must branch to
InnermostLoop ==
    nest[CHOOSE i \in DOMAIN nest :
            /\ nest[i].kind \in LoopKinds
            /\ \A j \in DOMAIN nest : nest[j].kind \in LoopKinds => j <= i]
BreakBlock(loop) ==
    Blk(CASE loop.kind = "WhileStmt" -> "afterwhile"
          [] loop.kind = "ForStmt"   -> "afterfor"
          [] OTHER                   -> "afterloop", loop.id)
ContinueBlock(loop) ==
    Blk(CASE loop.kind = "WhileStmt" -> "whilecond"
          [] loop.kind = "ForStmt"   -> "forstep"
          [] OTHER                   -> "loopbody", loop.id)

\* C28: a break or continue generated inside a loop body branches to the target of
\* the innermost enclosing loop: break to its after block, continue to the condition
\* block of a while, the step block of a for, the body block of a loop; also after
\* an inner loop statement has ended
C28_JumpsTargetInnermostLoop ==
    (last.op \in {"BreakStmt", "ContinueStmt"} /\ last.inLoop) =>
        /\ last.ok
        /\ emitted = <<Br(IF last.op = "BreakStmt" THEN BreakBlock(InnermostLoop)
                                                   ELSE ContinueBlock(InnermostLoop))>>

\* a declaration of an array variable from an array literal has just been generated
ArrayDeclDone ==
    /\ last.op = "VarDeclStmt" /\ last.ok
    /\ \E i \in DOMAIN emitted : IsCallTo(emitted[i], "aurora_array_create")

\* C29: the body of every function and of every method is generated inside a release
\* scope of its own: a scope is open while the body is generated, none is left open
\* after it, and an array variable declared in the body is tracked in that scope
C29_BodyInOwnScope ==
    /\ pc = "body" => Len(scope_stack_) = 1
    /\ pc = "top" => scope_stack_ = <<>>
    /\ ArrayDeclDone => TrackedCount = last.tracked + 1

\* C30: in a method or constructor of class C, `this.f` read or assigned is resolved
\* against the declaration of C: the class name recovered from the current
\* function's name is C, for every class name
C30_ThisResolvesToOwnClass ==
    memberLast.op # "none" => (memberLast.ok /\ memberLast.className = thisClass)

====
